---- MODULE Spec2Model ----
(***************************************************************************)
(* Model of the MENA bias evaluation pipeline: the OODA decision loop of   *)
(* pipeline.py and the fairness metrics and metric registry of             *)
(* custom_metrics.py.                                                      *)
(*                                                                         *)
(* Floating point numbers are modelled as fractions [n, d, np]: n/d with   *)
(* d >= 0, and np telling a numpy scalar (np.float64, np.int64) from a     *)
(* Python number.  d = 0 is what numpy returns for a division by zero:     *)
(* nan for 0/0 and +-inf for k/0.                                          *)
(***************************************************************************)
EXTENDS Integers, Sequences, FiniteSets, TLC

VARIABLES
    observations,   \* OODALoop.observations
    orientations,   \* OODALoop.orientations
    decisions,      \* OODALoop.decisions
    actions,        \* OODALoop.actions
    clock,          \* datetime.now(), as a logical clock
    calls,          \* per stage, the number of calls that returned
    ret,            \* the last call: [op, ok, arg, val]
    pc,             \* the stage the order Observe, Orient, Decide, Act expects next
    predictions,    \* the predictions array handed to orient / the metrics
    ground_truth,   \* the ground truth array
    sensitive_attribute,    \* the sensitive attribute array
    metrics,        \* CustomMetricRegistry.metrics, a dict in insertion order
    results,        \* the list compute_all returned last
    queue,          \* InferenceQueue.queue, a deque: oldest request first
    maxsize,        \* the maxlen the deque was built with
    alpha,          \* ABTester.alpha
    df,             \* the DataFrame handed to calculate_fairness_metrics
    lock,           \* InferenceQueue.lock: 0 when free, else the thread that holds it
    engine,         \* the fields of the RealtimeInferenceEngine
    threads,        \* per worker thread, where it is in _worker and its locals
    caller,         \* the thread that calls start and stop: ready, or inside join
    journal         \* the ids put and returned by get_batch, the callbacks called per
                    \* id, and the number and total size of the completed batches

oodaVars == <<observations, orientations, decisions, actions, clock, calls>>

inputVars == <<predictions, ground_truth, sensitive_attribute>>

registryVars == <<metrics, results>>

engineVars == <<lock, engine, threads, caller, journal>>

otherVars == <<queue, maxsize, alpha, df, engineVars>>

vars == <<observations, orientations, decisions, actions, clock, calls, ret, pc,
          predictions, ground_truth, sensitive_attribute, metrics, results,
          queue, maxsize, alpha, df, lock, engine, threads, caller, journal>>

----------------------------------------------------------------------------
(* Numbers *)

Frac(n, d) == [n |-> n, d |-> d, np |-> FALSE]

NpFrac(n, d) == [n |-> n, d |-> d, np |-> TRUE]

PyZero == Frac(0, 1)

IsNaN(x) == x.d = 0 /\ x.n = 0

\* x < y on floats; every comparison with nan is false
Lt(x, y) == ~IsNaN(x) /\ ~IsNaN(y) /\ x.n * y.d < y.n * x.d

Le(x, y) == ~IsNaN(x) /\ ~IsNaN(y) /\ x.n * y.d <= y.n * x.d

NumEq(x, y) == ~IsNaN(x) /\ ~IsNaN(y) /\ x.n * y.d = y.n * x.d

Minus(x, y) == [n |-> x.n * y.d - y.n * x.d, d |-> x.d * y.d, np |-> x.np \/ y.np]

\* numpy's true division of two np.int64: never raises, a zero divisor gives nan or inf
NpDiv(n, d) == NpFrac(n, d)

----------------------------------------------------------------------------
(* OODALoop, src/pipeline.py *)

Stages == {"observe", "orient", "decide", "act"}

NoCall == [op |-> "none", ok |-> TRUE, arg |-> "none", val |-> "none"]

Returned(op, arg, val) == [op |-> op, ok |-> TRUE, arg |-> arg, val |-> val]

Raised(op, arg, exc) == [op |-> op, ok |-> FALSE, arg |-> arg, val |-> exc]

SEVERITY_HIGH_BELOW == Frac(7, 10)

SEVERITY_MEDIUM_BELOW == Frac(85, 100)

DecideSeverityLeInsteadOfLt(accuracy) ==
    IF Le(accuracy, SEVERITY_HIGH_BELOW) THEN "high"
    ELSE IF Lt(accuracy, SEVERITY_MEDIUM_BELOW) THEN "medium"
    ELSE "low"

\* line 102: the severity expression
DecideSeverity(accuracy) ==
    IF Lt(accuracy, SEVERITY_HIGH_BELOW) THEN "high"
    ELSE IF Lt(accuracy, SEVERITY_MEDIUM_BELOW) THEN "medium"
    ELSE "low"

\* lines 107-115: the if / elif / else chain that appends one action and sets priority
DecideActions(accuracy) ==
    IF Lt(accuracy, SEVERITY_HIGH_BELOW)
        THEN [recommended_actions |-> Append(<<>>, "Immediate model retraining required"),
              priority |-> 1]
    ELSE IF Lt(accuracy, SEVERITY_MEDIUM_BELOW)
        THEN [recommended_actions |-> Append(<<>>, "Consider data augmentation"),
              priority |-> 2]
    ELSE [recommended_actions |-> Append(<<>>, "Monitor for drift"),
          priority |-> 3]

\* the decision dict decide() builds
MakeDecision(orientation) ==
    [severity |-> DecideSeverity(orientation.accuracy),
     recommended_actions |-> DecideActions(orientation.accuracy).recommended_actions,
     priority |-> DecideActions(orientation.accuracy).priority]

\* OODALoop.decide: state change and return value
DecideCall(orientation) ==
    /\ decisions' = Append(decisions, MakeDecision(orientation))
    /\ ret' = Returned("decide", orientation, MakeDecision(orientation))
    /\ calls' = [calls EXCEPT !["decide"] = @ + 1]
    /\ UNCHANGED <<observations, orientations, actions, clock>>

\* an act that also files the decision it was given in the decisions history
ActCallFilesDecision(decision) ==
    LET action == [executed |-> TRUE, actions_taken |-> decision.recommended_actions,
                   timestamp |-> clock]
    IN  /\ actions' = Append(actions, action)
        /\ decisions' = Append(decisions, decision)
        /\ clock' = clock + 1
        /\ ret' = Returned("act", decision, action)
        /\ calls' = [calls EXCEPT !["act"] = @ + 1]
        /\ UNCHANGED <<observations, orientations>>

\* OODALoop.act: appends to actions a snapshot that records the decision's actions
ActCall(decision) ==
    LET action == [executed |-> TRUE,
                   actions_taken |-> decision.recommended_actions,
                   timestamp |-> clock]
    IN  /\ actions' = Append(actions, action)
        /\ clock' = clock + 1
        /\ ret' = Returned("act", decision, action)
        /\ calls' = [calls EXCEPT !["act"] = @ + 1]
        /\ UNCHANGED <<observations, orientations, decisions>>

\* a pandas DataFrame: its row count, its column names, and per column the number of
\* nulls and the dtype; sentiment holds the labels of column 'sentiment'
DataFrame(nrows, columns, missing, sentiment) ==
    [isframe |-> TRUE, nrows |-> nrows, columns |-> columns,
     missing |-> [i \in 1..Len(columns) |-> IF i = 1 THEN missing ELSE 0],
     dtypes |-> [i \in 1..Len(columns) |-> "object"],
     sentiment |-> sentiment]

\* a value that is no DataFrame (None): every attribute access raises
NoneData == [isframe |-> FALSE]

\* observe with self.observations = [obs] in place of the append
ObserveCallOverwrites(data) ==
    IF data.isframe
    THEN LET obs == [timestamp |-> clock,
                     data_shape |-> <<data.nrows, Len(data.columns)>>,
                     columns |-> data.columns,
                     missing_values |-> data.missing,
                     data_types |-> data.dtypes]
         IN  /\ observations' = <<obs>>
             /\ clock' = clock + 1
             /\ ret' = Returned("observe", data, obs)
             /\ calls' = [calls EXCEPT !["observe"] = @ + 1]
             /\ UNCHANGED <<orientations, decisions, actions>>
    ELSE /\ ret' = Raised("observe", data, "AttributeError")
         /\ UNCHANGED oodaVars

\* observe without the append
ObserveCallForgetsAppend(data) ==
    IF data.isframe
    THEN LET obs == [timestamp |-> clock,
                     data_shape |-> <<data.nrows, Len(data.columns)>>,
                     columns |-> data.columns,
                     missing_values |-> data.missing,
                     data_types |-> data.dtypes]
         IN  /\ clock' = clock + 1
             /\ ret' = Returned("observe", data, obs)
             /\ calls' = [calls EXCEPT !["observe"] = @ + 1]
             /\ UNCHANGED <<observations, orientations, decisions, actions>>
    ELSE /\ ret' = Raised("observe", data, "AttributeError")
         /\ UNCHANGED oodaVars

\* OODALoop.observe
ObserveCall(data) ==
    IF data.isframe
    THEN LET obs == [timestamp |-> clock,
                     data_shape |-> <<data.nrows, Len(data.columns)>>,
                     columns |-> data.columns,
                     missing_values |-> data.missing,
                     data_types |-> data.dtypes]
         IN  /\ observations' = Append(observations, obs)
             /\ clock' = clock + 1
             /\ ret' = Returned("observe", data, obs)
             /\ calls' = [calls EXCEPT !["observe"] = @ + 1]
             /\ UNCHANGED <<orientations, decisions, actions>>
    ELSE /\ ret' = Raised("observe", data, "AttributeError")
         /\ UNCHANGED oodaVars

Labels == {"negative", "neutral", "positive"}

\* the order np.unique sorts the labels in
LabelSorted == <<"negative", "neutral", "positive">>

\* np.unique of a label array
Unique(arr) == SelectSeq(LabelSorted, LAMBDA l : \E i \in DOMAIN arr : arr[i] = l)

CountLabel(arr, l) == Cardinality({i \in DOMAIN arr : arr[i] = l})

\* how numpy compares two arrays with ==
CompareShape(a, b) ==
    IF Len(a) = Len(b) THEN "elementwise"
    ELSE IF Len(a) = 1 \/ Len(b) = 1 THEN "broadcast"
    ELSE "mismatch"

\* model_output == ground_truth where the shapes agree or broadcast
ElementwiseEqual(a, b) ==
    IF Len(a) = Len(b) THEN [i \in 1..Len(a) |-> a[i] = b[i]]
    ELSE IF Len(a) = 1 THEN [i \in 1..Len(b) |-> a[1] = b[i]]
    ELSE [i \in 1..Len(a) |-> a[i] = b[1]]

\* the mean taken over the True entries alone
MeanTrueOverMatches(bools) ==
    NpDiv(Cardinality({i \in DOMAIN bools : bools[i]}),
          Cardinality({i \in DOMAIN bools : bools[i]}))

\* np.mean of a boolean array; of an empty one it is nan
MeanTrue(bools) == NpDiv(Cardinality({i \in DOMAIN bools : bools[i]}), Len(bools))

\* OODALoop._detect_bias_patterns
DetectBiasPatterns(preds, truth) ==
    [diversity_score |-> IF Len(Unique(truth)) > 0
                         THEN Frac(Len(Unique(preds)), Len(Unique(truth)))
                         ELSE Frac(1, 1),
     unique_predictions |-> Len(Unique(preds)),
     unique_ground_truth |-> Len(Unique(truth))]

\* np.histogram of the integer codes 0..k-1 with k <= 10 bins: one bin per code
ConfidenceDistribution(model_output) ==
    [i \in 1..Len(Unique(model_output)) |-> CountLabel(model_output, Unique(model_output)[i])]

\* lines 83-97 of orient, once the accuracy is known: np.histogram raises on bins = 0
OrientFrom(model_output, truth, accuracy) ==
    LET arg == [model_output |-> model_output, ground_truth |-> truth]
    IN  IF Len(Unique(model_output)) = 0
        THEN Raised("orient", arg, "ValueError")
        ELSE Returned("orient", arg,
                      [accuracy |-> accuracy,
                       bias_indicators |-> DetectBiasPatterns(model_output, truth),
                       confidence_distribution |-> ConfidenceDistribution(model_output)])

\* the outcomes of orient. Arrays whose shapes neither agree nor broadcast compare, by
\* the numpy installed, either to the scalar False (mean 0.0) or by raising ValueError.
\* An empty array (dtype float64) against one label (dtype str) compares, by the numpy
\* installed, to the scalar False or to an empty array (mean nan).
OrientOutcomes(model_output, truth) ==
    IF CompareShape(model_output, truth) = "mismatch"
    THEN {Raised("orient", [model_output |-> model_output, ground_truth |-> truth], "ValueError"),
          OrientFrom(model_output, truth, NpFrac(0, 1))}
    ELSE IF Len(model_output) # Len(truth) /\ (Len(model_output) = 0 \/ Len(truth) = 0)
    THEN {OrientFrom(model_output, truth, NpFrac(0, 1)),
          OrientFrom(model_output, truth, MeanTrue(ElementwiseEqual(model_output, truth)))}
    ELSE {OrientFrom(model_output, truth, MeanTrue(ElementwiseEqual(model_output, truth)))}

\* OODALoop.orient
OrientCall(model_output, truth) ==
    \E out \in OrientOutcomes(model_output, truth) :
        /\ ret' = out
        /\ IF out.ok
           THEN /\ orientations' = Append(orientations, out.val)
                /\ calls' = [calls EXCEPT !["orient"] = @ + 1]
                /\ UNCHANGED <<observations, decisions, actions, clock>>
           ELSE UNCHANGED oodaVars

----------------------------------------------------------------------------
(* The fairness metrics, src/custom_metrics.py *)

MaxLen == 3

NumGroups == 2

\* x / y on numpy floats
Ratio(x, y) == [n |-> x.n * y.d, d |-> x.d * y.n, np |-> x.np \/ y.np]

\* a comparison that answers None where it does not hold
PyBoolOrNone(b, isnp) ==
    IF b THEN (IF isnp THEN "np.True_" ELSE "True") ELSE "None"

\* a comparison's value: np.bool_ when an operand is a numpy scalar, else bool
PyBool(b, isnp) ==
    IF isnp THEN (IF b THEN "np.True_" ELSE "np.False_")
    ELSE (IF b THEN "True" ELSE "False")

\* Python's truth test (if r.passed)
Truthy(p) == p \in {"True", "np.True_"}

\* Python's max(list) and min(list) of a non-empty list: the first element stays
\* unless a later one compares greater (smaller)
RECURSIVE PyMaxFrom(_, _, _)
PyMaxFrom(list, i, best) ==
    IF i > Len(list) THEN best
    ELSE PyMaxFrom(list, i + 1, IF Lt(best, list[i]) THEN list[i] ELSE best)

PyMax(list) == PyMaxFrom(list, 2, list[1])

RECURSIVE PyMinFrom(_, _, _)
PyMinFrom(list, i, best) ==
    IF i > Len(list) THEN best
    ELSE PyMinFrom(list, i + 1, IF Lt(list[i], best) THEN list[i] ELSE best)

PyMin(list) == PyMinFrom(list, 2, list[1])

\* max(a, b) of two numbers
PyMax2(a, b) == IF Lt(a, b) THEN b ELSE a

\* a sensitive attribute holds the group ids 1..NumGroups or, in a float array, nan:
\* the id after the last, as np.unique sorts nan last
NaNGroup == NumGroups + 1

GroupIds == 1..NaNGroup

\* np.unique(sensitive_attribute): the distinct groups, sorted (numpy from 1.21 on
\* returns one nan however many the array holds)
UniqueGroups(attr) ==
    SelectSeq([g \in GroupIds |-> g], LAMBDA g : \E i \in DOMAIN attr : attr[i] = g)

\* mask = sensitive_attribute == group, as the set of selected positions: nan equals
\* nothing, itself included, so the mask of the group nan is empty
Mask(attr, group) ==
    IF group = NaNGroup THEN {} ELSE {i \in DOMAIN attr : attr[i] = group}

\* (predictions[mask] == 'positive').sum()
PredictedPositive(preds, mask) == Cardinality({i \in mask : preds[i] = "positive"})

\* ((predictions[mask] == 'positive') & (ground_truth[mask] == 'positive')).sum()
TruePositive(preds, truth, mask) ==
    Cardinality({i \in mask : preds[i] = "positive" /\ truth[i] = "positive"})

\* ((predictions[mask] == 'positive') & (ground_truth[mask] != 'positive')).sum()
FalsePositive(preds, truth, mask) ==
    Cardinality({i \in mask : preds[i] = "positive" /\ truth[i] # "positive"})

ActualPositive(truth, mask) == Cardinality({i \in mask : truth[i] = "positive"})

ActualNegative(truth, mask) == Cardinality({i \in mask : truth[i] # "positive"})

\* dict(zip(unique_groups, values))
ZipDict(groups, values) ==
    [i \in 1..(IF Len(groups) < Len(values) THEN Len(groups) ELSE Len(values)) |->
        <<groups[i], values[i]>>]

NoDetails == [kind |-> "None"]

MetricResult(name, value, interpretation, threshold, passed, details) ==
    [metric_name |-> name, value |-> value, interpretation |-> interpretation,
     threshold |-> threshold, passed |-> passed, details |-> details]

\* the f-string of an interpretation, without the number it formats
Interpretation(passed, phrase, within, exceeds) ==
    <<IF Truthy(passed) THEN "Fair" ELSE "Biased", phrase,
      IF Truthy(passed) THEN within ELSE exceeds>>

\* lines 69-75 (and 207-213): the positive rate of every group that has members
PositiveRates(preds, attr) ==
    LET groups == SelectSeq(UniqueGroups(attr), LAMBDA g : Cardinality(Mask(attr, g)) > 0)
    IN  [i \in 1..Len(groups) |->
            NpDiv(PredictedPositive(preds, Mask(attr, groups[i])),
                  Cardinality(Mask(attr, groups[i])))]

\* DemographicParity.compute with passed = dpd < self.threshold
DemographicParityStrictThreshold(threshold, preds, truth, attr) ==
    LET positive_rates == PositiveRates(preds, attr)
    IN  IF Len(positive_rates) < 2
        THEN MetricResult("Demographic Parity", Frac(0, 1),
                          <<"Not enough groups to compute">>, threshold, "True", NoDetails)
        ELSE LET dpd == Minus(PyMax(positive_rates), PyMin(positive_rates))
                 passed == PyBool(Lt(dpd, threshold), dpd.np \/ threshold.np)
             IN  MetricResult("Demographic Parity", dpd,
                              Interpretation(passed, "Max difference between groups",
                                             "within threshold", "exceeds threshold"),
                              threshold, passed,
                              [kind |-> "dict",
                               positive_rates |-> ZipDict(UniqueGroups(attr), positive_rates)])

\* DemographicParity.compute
DemographicParityCompute(threshold, preds, truth, attr) ==
    LET positive_rates == PositiveRates(preds, attr)
    IN  IF Len(positive_rates) < 2
        THEN MetricResult("Demographic Parity", Frac(0, 1),
                          <<"Not enough groups to compute">>, threshold, "True", NoDetails)
        ELSE LET dpd == Minus(PyMax(positive_rates), PyMin(positive_rates))
                 passed == PyBool(Le(dpd, threshold), dpd.np \/ threshold.np)
             IN  MetricResult("Demographic Parity", dpd,
                              Interpretation(passed, "Max difference between groups",
                                             "within threshold", "exceeds threshold"),
                              threshold, passed,
                              [kind |-> "dict",
                               positive_rates |-> ZipDict(UniqueGroups(attr), positive_rates)])

\* the true positive rate without the guard on actual_positive
GroupTPRUnguarded(preds, truth, mask) ==
    NpDiv(TruePositive(preds, truth, mask), ActualPositive(truth, mask))

\* lines 135-140: a group's true positive rate
GroupTPR(preds, truth, mask) ==
    IF ActualPositive(truth, mask) > 0
    THEN NpDiv(TruePositive(preds, truth, mask), ActualPositive(truth, mask))
    ELSE PyZero

\* the false positives over all members of the group
GroupFPROverMembers(preds, truth, mask) ==
    IF Cardinality(mask) > 0
    THEN NpDiv(FalsePositive(preds, truth, mask), Cardinality(mask))
    ELSE PyZero

\* lines 142-147: a group's false positive rate
GroupFPR(preds, truth, mask) ==
    IF ActualNegative(truth, mask) > 0
    THEN NpDiv(FalsePositive(preds, truth, mask), ActualNegative(truth, mask))
    ELSE PyZero

\* EqualizedOdds.compute with eod = tpr_diff + fpr_diff
EqualizedOddsSumOfSpreads(threshold, preds, truth, attr) ==
    LET groups == UniqueGroups(attr)
        tpr_list == [i \in 1..Len(groups) |-> GroupTPR(preds, truth, Mask(attr, groups[i]))]
        fpr_list == [i \in 1..Len(groups) |-> GroupFPR(preds, truth, Mask(attr, groups[i]))]
    IN  IF Len(tpr_list) < 2
        THEN MetricResult("Equalized Odds", Frac(0, 1),
                          <<"Not enough groups to compute">>, threshold, "True", NoDetails)
        ELSE LET tpr_diff == Minus(PyMax(tpr_list), PyMin(tpr_list))
                 fpr_diff == Minus(PyMax(fpr_list), PyMin(fpr_list))
                 eod == Minus(tpr_diff, Minus(PyZero, fpr_diff))
                 passed == PyBool(Le(eod, threshold), eod.np \/ threshold.np)
             IN  MetricResult("Equalized Odds", eod,
                              Interpretation(passed, "Max difference",
                                             "within threshold", "exceeds threshold"),
                              threshold, passed,
                              [kind |-> "dict", tpr_diff |-> tpr_diff, fpr_diff |-> fpr_diff,
                               tpr_by_group |-> ZipDict(groups, tpr_list),
                               fpr_by_group |-> ZipDict(groups, fpr_list)])

\* EqualizedOdds.compute
EqualizedOddsCompute(threshold, preds, truth, attr) ==
    LET groups == UniqueGroups(attr)
        tpr_list == [i \in 1..Len(groups) |-> GroupTPR(preds, truth, Mask(attr, groups[i]))]
        fpr_list == [i \in 1..Len(groups) |-> GroupFPR(preds, truth, Mask(attr, groups[i]))]
    IN  IF Len(tpr_list) < 2
        THEN MetricResult("Equalized Odds", Frac(0, 1),
                          <<"Not enough groups to compute">>, threshold, "True", NoDetails)
        ELSE LET tpr_diff == Minus(PyMax(tpr_list), PyMin(tpr_list))
                 fpr_diff == Minus(PyMax(fpr_list), PyMin(fpr_list))
                 eod == PyMax2(tpr_diff, fpr_diff)
                 passed == PyBool(Le(eod, threshold), eod.np \/ threshold.np)
             IN  MetricResult("Equalized Odds", eod,
                              Interpretation(passed, "Max difference",
                                             "within threshold", "exceeds threshold"),
                              threshold, passed,
                              [kind |-> "dict", tpr_diff |-> tpr_diff, fpr_diff |-> fpr_diff,
                               tpr_by_group |-> ZipDict(groups, tpr_list),
                               fpr_by_group |-> ZipDict(groups, fpr_list)])

\* DisparateImpact.compute without the test min(positive_rates) == 0
DisparateImpactNoZeroCheck(threshold, preds, truth, attr) ==
    LET positive_rates == PositiveRates(preds, attr)
    IN  IF Len(positive_rates) < 2
        THEN MetricResult("Disparate Impact", Frac(1, 1),
                          <<"Cannot compute (zero rates)">>, threshold, "True", NoDetails)
        ELSE LET di_ratio == Ratio(PyMin(positive_rates), PyMax(positive_rates))
                 passed == PyBool(Le(threshold, di_ratio), di_ratio.np \/ threshold.np)
             IN  MetricResult("Disparate Impact", di_ratio,
                              Interpretation(passed, "Ratio", "meets threshold",
                                             "below threshold"),
                              threshold, passed,
                              [kind |-> "dict",
                               positive_rates |-> ZipDict(UniqueGroups(attr), positive_rates)])

\* DisparateImpact.compute
DisparateImpactCompute(threshold, preds, truth, attr) ==
    LET positive_rates == PositiveRates(preds, attr)
    IN  IF Len(positive_rates) < 2 \/ NumEq(PyMin(positive_rates), PyZero)
        THEN MetricResult("Disparate Impact", Frac(1, 1),
                          <<"Cannot compute (zero rates)">>, threshold, "True", NoDetails)
        ELSE LET di_ratio == Ratio(PyMin(positive_rates), PyMax(positive_rates))
                 passed == PyBool(Le(threshold, di_ratio), di_ratio.np \/ threshold.np)
             IN  MetricResult("Disparate Impact", di_ratio,
                              Interpretation(passed, "Ratio", "meets threshold",
                                             "below threshold"),
                              threshold, passed,
                              [kind |-> "dict",
                               positive_rates |-> ZipDict(UniqueGroups(attr), positive_rates)])

\* lines 272-276: a group's precision
GroupPrecision(preds, truth, mask) ==
    IF PredictedPositive(preds, mask) > 0
    THEN NpDiv(TruePositive(preds, truth, mask), PredictedPositive(preds, mask))
    ELSE PyZero

\* PredictiveParityDifference.compute
PredictiveParityCompute(threshold, preds, truth, attr) ==
    LET groups == UniqueGroups(attr)
        precision_list ==
            [i \in 1..Len(groups) |-> GroupPrecision(preds, truth, Mask(attr, groups[i]))]
    IN  IF Len(precision_list) < 2
        THEN MetricResult("Predictive Parity", Frac(0, 1),
                          <<"Not enough groups to compute">>, threshold, "True", NoDetails)
        ELSE LET ppd == Minus(PyMax(precision_list), PyMin(precision_list))
                 passed == PyBool(Le(ppd, threshold), ppd.np \/ threshold.np)
             IN  MetricResult("Predictive Parity", ppd,
                              Interpretation(passed, "Precision difference",
                                             "within threshold", "exceeds threshold"),
                              threshold, passed,
                              [kind |-> "dict",
                               precision_by_group |-> ZipDict(groups, precision_list)])

----------------------------------------------------------------------------
(* CustomMetricRegistry, src/custom_metrics.py *)

DEFAULT_PARITY_THRESHOLD == Frac(1, 10)

DEFAULT_IMPACT_THRESHOLD == Frac(8, 10)

\* a metric object: a built-in class with its threshold, or a subclass of BiasMetric
\* written by the user, whose compute returns a result with the given passed or raises
Metric(name, kind, threshold, custom) ==
    [name |-> name, kind |-> kind, threshold |-> threshold, custom |-> custom]

DemographicParity(threshold) ==
    Metric("Demographic Parity", "DemographicParity", threshold, "no")

EqualizedOdds(threshold) == Metric("Equalized Odds", "EqualizedOdds", threshold, "no")

DisparateImpact(threshold) == Metric("Disparate Impact", "DisparateImpact", threshold, "no")

PredictiveParityDifference(threshold) ==
    Metric("Predictive Parity", "PredictiveParityDifference", threshold, "no")

\* predictions[mask] and ground_truth[mask] raise IndexError when the array indexed is
\* not as long as the mask. DemographicParity and DisparateImpact index predictions
\* only, and only for a group with members; the other two index both for every group
IndexingRaises(metric, preds, truth, attr) ==
    IF metric.kind \in {"EqualizedOdds", "PredictiveParityDifference"}
    THEN /\ Len(UniqueGroups(attr)) > 0
         /\ (Len(preds) # Len(attr) \/ Len(truth) # Len(attr))
    ELSE /\ \E i \in DOMAIN attr : attr[i] # NaNGroup
         /\ Len(preds) # Len(attr)

\* metric.compute(predictions, ground_truth, sensitive_attribute): what it returns, or
\* the exception it raises
Compute(metric, preds, truth, attr) ==
    IF metric.kind = "Custom"
    THEN IF metric.custom = "raises"
         THEN [ok |-> FALSE, val |-> "Exception"]
         ELSE [ok |-> TRUE,
               val |-> MetricResult(metric.name, Frac(0, 1), <<"custom">>, metric.threshold,
                                    metric.custom, NoDetails)]
    ELSE IF IndexingRaises(metric, preds, truth, attr)
    THEN [ok |-> FALSE, val |-> "IndexError"]
    ELSE [ok |-> TRUE,
          val |-> CASE metric.kind = "DemographicParity" ->
                         DemographicParityCompute(metric.threshold, preds, truth, attr)
                    [] metric.kind = "EqualizedOdds" ->
                         EqualizedOddsCompute(metric.threshold, preds, truth, attr)
                    [] metric.kind = "DisparateImpact" ->
                         DisparateImpactCompute(metric.threshold, preds, truth, attr)
                    [] metric.kind = "PredictiveParityDifference" ->
                         PredictiveParityCompute(metric.threshold, preds, truth, attr)]

\* a register that keeps the metric already known under the name
RegisterIntoKeepsFirst(registry, metric) ==
    IF \E i \in DOMAIN registry : registry[i].name = metric.name
    THEN registry
    ELSE Append(registry, metric)

\* self.metrics[metric.name] = metric on a dict: a known name keeps its place
RegisterInto(registry, metric) ==
    IF \E i \in DOMAIN registry : registry[i].name = metric.name
    THEN [i \in DOMAIN registry |->
            IF registry[i].name = metric.name THEN metric ELSE registry[i]]
    ELSE Append(registry, metric)

\* CustomMetricRegistry.__init__ / register_default_metrics
DefaultMetrics ==
    RegisterInto(RegisterInto(RegisterInto(RegisterInto(<<>>,
        DemographicParity(DEFAULT_PARITY_THRESHOLD)),
        EqualizedOdds(DEFAULT_PARITY_THRESHOLD)),
        DisparateImpact(DEFAULT_IMPACT_THRESHOLD)),
        PredictiveParityDifference(DEFAULT_PARITY_THRESHOLD))

\* the loop of compute_all from the i-th metric on: a result is appended, an exception
\* is logged and the loop goes on
RECURSIVE ComputeAllFrom(_, _, _, _, _, _)
ComputeAllFrom(registry, i, preds, truth, attr, acc) ==
    IF i > Len(registry) THEN acc
    ELSE LET out == Compute(registry[i], preds, truth, attr)
         IN  ComputeAllFrom(registry, i + 1, preds, truth, attr,
                            IF out.ok THEN Append(acc, out.val) ELSE acc)

\* compute_all with the try around the loop: the first exception ends the batch
RECURSIVE ComputeAllUntilError(_, _, _, _, _, _)
ComputeAllUntilError(registry, i, preds, truth, attr, acc) ==
    IF i > Len(registry) THEN acc
    ELSE LET out == Compute(registry[i], preds, truth, attr)
         IN  IF out.ok
             THEN ComputeAllUntilError(registry, i + 1, preds, truth, attr, Append(acc, out.val))
             ELSE acc

ComputeAllAbortsBatch(registry, preds, truth, attr) ==
    ComputeAllUntilError(registry, 1, preds, truth, attr, <<>>)

\* CustomMetricRegistry.compute_all: the list it returns
ComputeAll(registry, preds, truth, attr) ==
    ComputeAllFrom(registry, 1, preds, truth, attr, <<>>)

\* sum(1 for r in results if r.passed)
CountPassed(rs) == Cardinality({i \in DOMAIN rs : Truthy(rs[i].passed)})

\* sum(1 for r in results if r.passed is False): only the bool False is False
CountFailed(rs) == Cardinality({i \in DOMAIN rs : rs[i].passed = "False"})

\* get_summary with pass_rate = passed / len(results) unguarded (a division by zero is
\* shown as the fraction k/0)
GetSummaryUnguarded(rs) ==
    [total_metrics |-> Len(rs),
     passed |-> CountPassed(rs),
     failed |-> CountFailed(rs),
     pass_rate |-> Frac(CountPassed(rs), Len(rs)),
     results |-> [i \in DOMAIN rs |->
                    [metric |-> rs[i].metric_name, value |-> rs[i].value,
                     passed |-> rs[i].passed, interpretation |-> rs[i].interpretation]]]

\* CustomMetricRegistry.get_summary: the dict it returns
GetSummary(rs) ==
    [total_metrics |-> Len(rs),
     passed |-> CountPassed(rs),
     failed |-> CountFailed(rs),
     pass_rate |-> IF Len(rs) > 0 THEN Frac(CountPassed(rs), Len(rs)) ELSE PyZero,
     results |-> [i \in DOMAIN rs |->
                    [metric |-> rs[i].metric_name, value |-> rs[i].value,
                     passed |-> rs[i].passed, interpretation |-> rs[i].interpretation]]]

----------------------------------------------------------------------------
(* The callers of OODALoop *)

MaxCalls == 4

MaxDecisions == 1

MaxAccDen == 20

TotalCalls == calls["observe"] + calls["orient"] + calls["decide"] + calls["act"]

\* the order in which main() and the analyze-bias endpoint call the stages
StageAfter(stage) ==
    CASE stage = "observe" -> "orient"
      [] stage = "orient" -> "decide"
      [] stage = "decide" -> "act"
      [] stage = "act" -> "observe"

\* pc after a call of stage: it advances when the expected stage returned, stays when
\* the expected stage raised, and records any other call as out of order
Advance(stage) ==
    pc' = IF pc = stage THEN (IF ret'.ok THEN StageAfter(stage) ELSE pc)
          ELSE "out_of_order"

\* the fixture of the tests: three rows, the columns the pipeline needs
SampleFrame ==
    DataFrame(3, <<"text", "sentiment", "region", "gender", "age_group">>, 0,
              <<"positive", "negative", "neutral">>)

\* pd.DataFrame(): no rows and no columns
EmptyFrame == DataFrame(0, <<>>, 0, <<>>)

\* the columns of the fixture without a row
NoRowsFrame ==
    DataFrame(0, <<"text", "sentiment", "region", "gender", "age_group">>, 0, <<>>)

ObserveInputs == {NoneData, EmptyFrame, NoRowsFrame, SampleFrame}

OrientInputs ==
    { <<(<<"positive", "negative", "neutral">>), (<<"positive", "negative", "positive">>)>>,
      <<(<<"positive", "negative">>), (<<"positive", "negative">>)>>,
      <<(<<>>), (<<>>)>>,
      <<(<<"positive", "negative", "neutral">>), (<<"positive", "negative">>)>>,
      <<(<<"positive">>), (<<"positive", "negative", "positive">>)>> }

Recorded(history) == {history[i] : i \in DOMAIN history}

DecideInputs ==
    {[accuracy |-> Frac(65, 100)], [accuracy |-> Frac(75, 100)], [accuracy |-> Frac(90, 100)]}
        \cup Recorded(orientations)

ActInputs ==
    {[severity |-> "high", recommended_actions |-> <<"action1", "action2">>, priority |-> 1]}
        \cup Recorded(decisions)

Observe ==
    /\ TotalCalls < MaxCalls
    /\ \E data \in ObserveInputs : ObserveCall(data)
    /\ Advance("observe")
    /\ UNCHANGED <<inputVars, registryVars, otherVars>>

Orient ==
    /\ TotalCalls < MaxCalls
    /\ \E io \in OrientInputs : OrientCall(io[1], io[2])
    /\ Advance("orient")
    /\ UNCHANGED <<inputVars, registryVars, otherVars>>

Decide ==
    /\ TotalCalls < MaxCalls
    /\ \E orientation \in DecideInputs : DecideCall(orientation)
    /\ Advance("decide")
    /\ UNCHANGED <<inputVars, registryVars, otherVars>>

Act ==
    /\ TotalCalls < MaxCalls
    /\ \E decision \in ActInputs : ActCall(decision)
    /\ Advance("act")
    /\ UNCHANGED <<inputVars, registryVars, otherVars>>

\* the accuracies decide is checked on: every k/n up to MaxAccDen, and nan
AccuracyInputs ==
    {NpFrac(k, n) : k \in 0..MaxAccDen, n \in 1..MaxAccDen} \cup {NpFrac(0, 0)}

DecideOnAccuracy ==
    /\ Len(decisions) < MaxDecisions
    /\ \E a \in AccuracyInputs : DecideCall([accuracy |-> a])
    /\ Advance("decide")
    /\ UNCHANGED <<inputVars, registryVars, otherVars>>

\* OODALoop.__init__, and nothing called yet
InitLoop ==
    /\ observations = <<>>
    /\ orientations = <<>>
    /\ decisions = <<>>
    /\ actions = <<>>
    /\ clock = 0
    /\ calls = [s \in Stages |-> 0]
    /\ ret = NoCall
    /\ pc = "observe"

InitIdle ==
    /\ predictions = <<>>
    /\ ground_truth = <<>>
    /\ sensitive_attribute = <<>>
    /\ metrics = <<>>
    /\ results = <<>>

\* the start calls that create a thread
MaxStarts == 2

\* the worker threads, in the order start creates them
Workers == 1..MaxStarts

\* worker_thread = None
NoThread == 0

\* RealtimeInferenceEngine.__init__: batch_size: int = 32
DEFAULT_BATCH_SIZE == 32

\* the engine after __init__: counters at zero, not running, no worker thread
EngineInit(batch_size) ==
    [batch_size |-> batch_size, running |-> FALSE, worker_thread |-> NoThread,
     total_requests |-> 0, batch_count |-> 0]

\* a thread that start has not created yet
IdleThread == [pc |-> "idle", batch |-> <<>>, seen |-> <<>>, loaded |-> 0]

\* a new engine around an empty queue whose lock is free
InitEngineVars(batch_size) ==
    /\ lock = 0
    /\ engine = EngineInit(batch_size)
    /\ threads = [w \in Workers |-> IdleThread]
    /\ caller = "ready"
    /\ journal = [put |-> <<>>, delivered |-> <<>>, answered |-> <<>>, batches |-> 0,
                  requests |-> 0]

\* InferenceQueue.__init__: maxsize: int = 1000
DEFAULT_MAXSIZE == 1000

\* ABTester.__init__: alpha: float = 0.05
DEFAULT_ALPHA == Frac(5, 100)

\* no queue filled, no tester configured, no dataset loaded
InitOther ==
    /\ queue = <<>>
    /\ maxsize = DEFAULT_MAXSIZE
    /\ alpha = DEFAULT_ALPHA
    /\ df = NoneData
    /\ InitEngineVars(DEFAULT_BATCH_SIZE)

Init == InitLoop /\ InitIdle /\ InitOther

Next == Observe \/ Orient \/ Decide \/ Act

Spec == Init /\ [][Next]_vars

SpecDecide == Init /\ [][DecideOnAccuracy]_vars

----------------------------------------------------------------------------
(* Calls of the metrics and of the registry *)

MaxResults == 3

\* only 'positive' is told apart from the other labels by the metrics
MetricLabels == {"positive", "negative"}

\* thresholds the metrics are built with: the default and one other
ParityThresholds == {DEFAULT_PARITY_THRESHOLD, Frac(1, 2)}

ImpactThresholds == {DEFAULT_IMPACT_THRESHOLD, Frac(1, 2)}

\* one call metric.compute(predictions, ground_truth, sensitive_attribute)
ComputeCall(metric) ==
    LET out == Compute(metric, predictions, ground_truth, sensitive_attribute)
    IN  /\ ret = NoCall
        /\ ret' = IF out.ok THEN Returned("compute", metric, out.val)
                  ELSE Raised("compute", metric, out.val)
        /\ UNCHANGED <<oodaVars, pc, inputVars, registryVars, otherVars>>

ComputeDemographicParity == \E t \in ParityThresholds : ComputeCall(DemographicParity(t))

ComputeEqualizedOdds == \E t \in ParityThresholds : ComputeCall(EqualizedOdds(t))

ComputeDisparateImpact == \E t \in ImpactThresholds : ComputeCall(DisparateImpact(t))

ComputePredictiveParity ==
    \E t \in ParityThresholds : ComputeCall(PredictiveParityDifference(t))

\* equal-length arrays of up to MaxLen samples
InitArrays ==
    \E n \in 0..MaxLen :
        /\ predictions \in [1..n -> MetricLabels]
        /\ ground_truth \in [1..n -> MetricLabels]
        /\ sensitive_attribute \in [1..n -> GroupIds]

InitMetrics ==
    /\ InitLoop
    /\ InitOther
    /\ InitArrays
    /\ metrics = DefaultMetrics
    /\ results = <<>>

NextMetrics ==
    \/ ComputeDemographicParity
    \/ ComputeEqualizedOdds
    \/ ComputeDisparateImpact
    \/ ComputePredictiveParity

SpecMetrics == InitMetrics /\ [][NextMetrics]_vars

\* metrics a user registers: two of their own (one raises, one gives no verdict), a
\* built-in with another threshold, and one of their own under a built-in's name
RegisterInputs ==
    { Metric("Broken", "Custom", DEFAULT_PARITY_THRESHOLD, "raises"),
      Metric("Unjudged", "Custom", DEFAULT_PARITY_THRESHOLD, "None"),
      DemographicParity(Frac(1, 2)),
      Metric("Equalized Odds", "Custom", DEFAULT_PARITY_THRESHOLD, "raises") }

\* the arrays compute_all is called with: two groups, one group, no samples, and
\* arrays of different lengths
RegistryInputs ==
    { <<(<<"positive", "negative", "positive">>), (<<"positive", "positive", "negative">>),
        (<<1, 2, 2>>)>>,
      <<(<<"positive", "positive">>), (<<"positive", "negative">>), (<<1, 2>>)>>,
      <<(<<"positive", "negative">>), (<<"positive", "negative">>), (<<1, 1>>)>>,
      <<(<<>>), (<<>>), (<<>>)>>,
      <<(<<"positive", "negative">>), (<<"positive">>), (<<1, 2>>)>>,
      <<(<<"positive">>), (<<"positive", "negative">>), (<<1, 2>>)>> }

\* CustomMetricRegistry.register
Register ==
    \E metric \in RegisterInputs :
        /\ metrics' = RegisterInto(metrics, metric)
        /\ ret' = Returned("register", metric, "None")
        /\ UNCHANGED <<oodaVars, pc, inputVars, results, otherVars>>

\* CustomMetricRegistry.compute_all on the arrays
ComputeAllCall ==
    /\ results' = ComputeAll(metrics, predictions, ground_truth, sensitive_attribute)
    /\ ret' = Returned("compute_all", metrics, results')
    /\ UNCHANGED <<oodaVars, pc, inputVars, metrics, otherVars>>

\* results a caller may hand to get_summary: every verdict a result can carry
SampleResults ==
    { MetricResult("m", Frac(0, 1), <<"custom">>, DEFAULT_PARITY_THRESHOLD, p, NoDetails) :
        p \in {"True", "False", "np.True_", "np.False_", "None"} }

\* CustomMetricRegistry.get_summary of the list at hand, as evaluate_dataframe calls it
GetSummaryCall ==
    /\ ret' = Returned("get_summary", results, GetSummary(results))
    /\ UNCHANGED <<oodaVars, pc, inputVars, registryVars, otherVars>>

InitRegistry ==
    /\ InitLoop
    /\ InitOther
    /\ \E io \in RegistryInputs :
        /\ predictions = io[1]
        /\ ground_truth = io[2]
        /\ sensitive_attribute = io[3]
    /\ metrics = DefaultMetrics
    /\ results = <<>>

NextRegistry == Register \/ ComputeAllCall \/ GetSummaryCall

SpecRegistry == InitRegistry /\ [][NextRegistry]_vars

\* get_summary on any list of up to MaxResults results
InitSummary ==
    /\ InitLoop
    /\ InitOther
    /\ predictions = <<>>
    /\ ground_truth = <<>>
    /\ sensitive_attribute = <<>>
    /\ metrics = DefaultMetrics
    /\ \E n \in 0..MaxResults : results \in [1..n -> SampleResults]

SpecSummary == InitSummary /\ [][GetSummaryCall]_vars

----------------------------------------------------------------------------
(* Claims about OODALoop *)

Last(history) == history[Len(history)]

\* C1: decide depends on the accuracy alone: below 0.70 it answers high with priority 1,
\* from 0.70 and below 0.85 medium with priority 2, from 0.85 on low with priority 3;
\* the decision holds exactly the one action of its severity and its priority is never
\* 0. The decision returned is the one recorded.
C1_DecideByThresholds ==
    ret.op = "decide" =>
        LET a == ret.arg.accuracy
            d == ret.val
        IN  /\ (a.d > 0 /\ 100 * a.n < 70 * a.d) =>
                   /\ d.severity = "high"
                   /\ d.priority = 1
                   /\ d.recommended_actions = <<"Immediate model retraining required">>
            /\ (a.d > 0 /\ 100 * a.n >= 70 * a.d /\ 100 * a.n < 85 * a.d) =>
                   /\ d.severity = "medium"
                   /\ d.priority = 2
                   /\ d.recommended_actions = <<"Consider data augmentation">>
            /\ (a.d > 0 /\ 100 * a.n >= 85 * a.d) =>
                   /\ d.severity = "low"
                   /\ d.priority = 3
                   /\ d.recommended_actions = <<"Monitor for drift">>
            /\ Len(d.recommended_actions) = 1
            /\ d.priority \in {1, 2, 3}
            /\ (d.severity = "high") = (d.priority = 1)
            /\ (d.severity = "medium") = (d.priority = 2)
            /\ Len(decisions) > 0 /\ Last(decisions) = d

\* C1 witness: decide was called with exactly 0.70 and with exactly 0.85 in turn: here
\* with 0.85 (17/20), answered low
C1_Witness ==
    /\ ret.op = "decide"
    /\ ret.arg.accuracy.d = 20 /\ ret.arg.accuracy.n = 17
    /\ ret.val.severity = "low"

\* C9 (steps): a call that returns appends the snapshot it returns to its own stage's
\* list; every other list, and every list on a call that raised, is left as it was
C9_StepAppends ==
    /\ observations' = IF ret'.op = "observe" /\ ret'.ok
                       THEN Append(observations, ret'.val) ELSE observations
    /\ orientations' = IF ret'.op = "orient" /\ ret'.ok
                       THEN Append(orientations, ret'.val) ELSE orientations
    /\ decisions' = IF ret'.op = "decide" /\ ret'.ok
                    THEN Append(decisions, ret'.val) ELSE decisions
    /\ actions' = IF ret'.op = "act" /\ ret'.ok
                  THEN Append(actions, ret'.val) ELSE actions

C9_Lengths ==
    /\ Len(observations) = calls["observe"]
    /\ Len(orientations) = calls["orient"]
    /\ Len(decisions) = calls["decide"]
    /\ Len(actions) = calls["act"]

\* C9: the four histories start empty and are append-only: each call that returns
\* appends exactly one snapshot, the one returned, to its own list and changes no other
\* list, so each list is as long as the number of calls of its stage that returned
C9_AppendOnly ==
    /\ (observations = <<>> /\ orientations = <<>> /\ decisions = <<>> /\ actions = <<>>)
    /\ [](C9_Lengths)
    /\ [][C9_StepAppends]_vars

\* C9 witness: the same stage was called twice, another stage once, and a call raised
C9_Witness ==
    /\ Len(orientations) = 2
    /\ Len(decisions) = 1
    /\ Len(observations) = 0
    /\ ~ret.ok

\* C10 (as claimed): in every reachable state no stage has more entries than the
\* stage before it
C10_StagesInOrder ==
    /\ Len(actions) <= Len(decisions)
    /\ Len(decisions) <= Len(orientations)
    /\ Len(orientations) <= Len(observations)

\* C10 (amended): OODALoop does not enforce the order; as long as the caller has
\* called the stages in the order observe, orient, decide, act (cycle after cycle, not
\* going on after a call that raised), no stage has more entries than the one before
C10_InOrderCallsKeepOrder ==
    pc # "out_of_order" => C10_StagesInOrder

\* C10 witness: one full cycle was called in order
C10_Witness ==
    /\ pc = "observe"
    /\ Len(actions) = 1
    /\ Len(observations) = 1

----------------------------------------------------------------------------
(* Claims about the fairness metrics *)

\* the distinct values of the sensitive attribute; the groups among them that have
\* members (all but nan); and per group its members, its predicted positives and the
\* counts the rates are made of
DistinctGroups == {sensitive_attribute[i] : i \in DOMAIN sensitive_attribute}

GroupSet == DistinctGroups \ {NaNGroup}

Members(g) == {i \in DOMAIN sensitive_attribute : g # NaNGroup /\ sensitive_attribute[i] = g}

Size(g) == Cardinality(Members(g))

Pos(g) == Cardinality({i \in Members(g) : predictions[i] = "positive"})

TruePos(g) ==
    Cardinality({i \in Members(g) : predictions[i] = "positive" /\ ground_truth[i] = "positive"})

FalsePos(g) ==
    Cardinality({i \in Members(g) : predictions[i] = "positive" /\ ground_truth[i] # "positive"})

ActualPos(g) == Cardinality({i \in Members(g) : ground_truth[i] = "positive"})

ActualNeg(g) == Cardinality({i \in Members(g) : ground_truth[i] # "positive"})

Computed(kind) == ret.op = "compute" /\ ret.ok /\ ret.arg.kind = kind

\* the groups with the largest and with the smallest positive rate
HighestRate(g) == \A h \in GroupSet : Pos(h) * Size(g) <= Pos(g) * Size(h)

LowestRate(g) == \A h \in GroupSet : Pos(g) * Size(h) <= Pos(h) * Size(g)

\* C2: with two or more groups DemographicParity returns the largest minus the
\* smallest positive rate of a group, and passed holds a verdict that is true exactly
\* when the value is at most the threshold (false exactly when it exceeds it)
C2_DemographicParityValue ==
    (Computed("DemographicParity") /\ Cardinality(GroupSet) >= 2) =>
        LET v == ret.val.value
            t == ret.arg.threshold
        IN  /\ v.d > 0
            /\ \E hi, lo \in GroupSet :
                /\ HighestRate(hi) /\ LowestRate(lo)
                /\ v.n * Size(hi) * Size(lo) = v.d * (Pos(hi) * Size(lo) - Pos(lo) * Size(hi))
            /\ ret.val.passed \in {"True", "np.True_", "False", "np.False_"}
            /\ Truthy(ret.val.passed) <=> (v.n * t.d <= t.n * v.d)
            /\ ret.val.threshold = t

\* C2 witness: three members, rates 1 and 1/2, threshold 1/2: the value equals the
\* threshold and the metric passes
C2_Witness ==
    /\ Computed("DemographicParity")
    /\ Cardinality(GroupSet) = 2
    /\ ret.arg.threshold = Frac(1, 2)
    /\ 2 * ret.val.value.n = ret.val.value.d
    /\ Truthy(ret.val.passed)

\* C3: DisparateImpact returns the smallest positive rate divided by the largest, and
\* passes exactly when that ratio is at least the threshold; when a group's positive
\* rate is zero it returns 1.0 with passed = True instead
C3_DisparateImpactValue ==
    Computed("DisparateImpact") =>
        LET v == ret.val.value
            t == ret.arg.threshold
        IN  /\ (Cardinality(GroupSet) >= 2 /\ \A g \in GroupSet : Pos(g) > 0) =>
                /\ v.d > 0
                /\ \E hi, lo \in GroupSet :
                    /\ HighestRate(hi) /\ LowestRate(lo)
                    /\ v.n * Size(lo) * Pos(hi) = v.d * Pos(lo) * Size(hi)
                /\ ret.val.passed \in {"True", "np.True_", "False", "np.False_"}
                /\ Truthy(ret.val.passed) <=> (v.n * t.d >= t.n * v.d)
            /\ (\E g \in GroupSet : Pos(g) = 0) =>
                /\ v.n = v.d /\ v.d > 0
                /\ ret.val.passed = "True"

\* C3 witness: two groups, one with positive rate zero and one without
C3_Witness ==
    /\ Computed("DisparateImpact")
    /\ Cardinality(GroupSet) = 2
    /\ \E g \in GroupSet : Pos(g) = 0
    /\ \E g \in GroupSet : Pos(g) > 0
    /\ ret.val.passed = "True"

\* C4: on arrays of equal length the values of DemographicParity, EqualizedOdds and
\* PredictiveParityDifference lie in [0, 1] and the value of DisparateImpact in (0, 1]
C4_ValueRanges ==
    (ret.op = "compute" /\ ret.ok) =>
        LET v == ret.val.value
        IN  /\ v.d > 0
            /\ v.n <= v.d
            /\ IF ret.arg.kind = "DisparateImpact" THEN v.n > 0 ELSE v.n >= 0

\* C4 witness: EqualizedOdds reached the value 1 on two groups
C4_Witness ==
    /\ Computed("EqualizedOdds")
    /\ Cardinality(GroupSet) = 2
    /\ ret.val.value.n = ret.val.value.d

\* C5 (as claimed): with fewer than two groups each metric returns passed = True, the
\* value 0.0 (1.0 for DisparateImpact) and an interpretation that says there are not
\* enough groups
C5_NotEnoughGroups ==
    (ret.op = "compute" /\ Cardinality(DistinctGroups) < 2) =>
        /\ ret.ok
        /\ ret.val.passed = "True"
        /\ ret.val.value.d > 0
        /\ IF ret.arg.kind = "DisparateImpact"
           THEN ret.val.value.n = ret.val.value.d
           ELSE ret.val.value.n = 0
        /\ ret.val.interpretation = <<"Not enough groups to compute">>

\* the entry of a group in a dict of rates, kept as pairs <<group, rate>>
HasRate(dict, g) == \E i \in DOMAIN dict : dict[i][1] = g

RateOf(dict, g) == dict[CHOOSE i \in DOMAIN dict : dict[i][1] = g][2]

\* no rate is the nan or inf of a division by zero
AllFinite(dict) == \A i \in DOMAIN dict : dict[i][2].d > 0

\* C6 (as claimed): in all four metrics a group with a zero denominator has the rate
\* (precision) 0, no division fails and the metric returns a result
C6_ZeroDenominatorIsRateZero ==
    ret.op = "compute" =>
        /\ ret.ok
        /\ ret.val.value.d > 0
        /\ ret.val.details.kind = "dict" =>
            /\ ret.arg.kind \in {"DemographicParity", "DisparateImpact"} =>
                LET rates == ret.val.details.positive_rates
                IN  /\ AllFinite(rates)
                    /\ \A g \in DistinctGroups :
                        /\ HasRate(rates, g)
                        /\ Size(g) = 0 => RateOf(rates, g).n = 0
            /\ ret.arg.kind = "EqualizedOdds" =>
                LET tpr == ret.val.details.tpr_by_group
                    fpr == ret.val.details.fpr_by_group
                IN  /\ AllFinite(tpr) /\ AllFinite(fpr)
                    /\ \A g \in DistinctGroups :
                        /\ HasRate(tpr, g) /\ HasRate(fpr, g)
                        /\ ActualPos(g) = 0 => RateOf(tpr, g).n = 0
                        /\ ActualNeg(g) = 0 => RateOf(fpr, g).n = 0
            /\ ret.arg.kind = "PredictiveParityDifference" =>
                LET prec == ret.val.details.precision_by_group
                IN  /\ AllFinite(prec)
                    /\ \A g \in DistinctGroups :
                        /\ HasRate(prec, g)
                        /\ Pos(g) = 0 => RateOf(prec, g).n = 0

\* C6 (amended): no metric fails on a zero denominator and each returns its result.
\* EqualizedOdds and PredictiveParityDifference give every group a rate, 0 where the
\* denominator is 0 (no actual positives, no actual negatives, no predicted positives,
\* no members); DemographicParity and DisparateImpact give a rate to the groups with
\* members and leave a group without members out
C6_ZeroDenominators ==
    ret.op = "compute" =>
        /\ ret.ok
        /\ ret.val.value.d > 0
        /\ ret.val.details.kind = "dict" =>
            /\ ret.arg.kind \in {"DemographicParity", "DisparateImpact"} =>
                LET rates == ret.val.details.positive_rates
                IN  /\ AllFinite(rates)
                    /\ Len(rates) = Cardinality(GroupSet)
                    /\ \A g \in DistinctGroups : HasRate(rates, g) <=> Size(g) > 0
                    /\ \A g \in GroupSet :
                        RateOf(rates, g).n * Size(g) = Pos(g) * RateOf(rates, g).d
            /\ ret.arg.kind = "EqualizedOdds" =>
                LET tpr == ret.val.details.tpr_by_group
                    fpr == ret.val.details.fpr_by_group
                IN  /\ AllFinite(tpr) /\ AllFinite(fpr)
                    /\ Len(tpr) = Cardinality(DistinctGroups)
                    /\ Len(fpr) = Cardinality(DistinctGroups)
                    /\ \A g \in DistinctGroups :
                        /\ HasRate(tpr, g) /\ HasRate(fpr, g)
                        /\ ActualPos(g) = 0 => RateOf(tpr, g).n = 0
                        /\ ActualNeg(g) = 0 => RateOf(fpr, g).n = 0
            /\ ret.arg.kind = "PredictiveParityDifference" =>
                LET prec == ret.val.details.precision_by_group
                IN  /\ AllFinite(prec)
                    /\ Len(prec) = Cardinality(DistinctGroups)
                    /\ \A g \in DistinctGroups :
                        /\ HasRate(prec, g)
                        /\ Pos(g) = 0 => RateOf(prec, g).n = 0

\* C6 witness: EqualizedOdds on a group with a true positive, a group without actual
\* positives and a group without members
C6_Witness ==
    /\ Computed("EqualizedOdds")
    /\ Cardinality(GroupSet) = 2
    /\ NaNGroup \in DistinctGroups
    /\ \E g \in GroupSet : ActualPos(g) = 0
    /\ \E g \in GroupSet : TruePos(g) > 0
    /\ ret.val.details.kind = "dict"

----------------------------------------------------------------------------
(* Claims about CustomMetricRegistry *)

\* the positions of the metrics whose compute does not raise on the arrays
Succeeding(registry) ==
    SelectSeq([i \in 1..Len(registry) |-> i],
              LAMBDA i : Compute(registry[i], predictions, ground_truth, sensitive_attribute).ok)

\* C7: compute_all returns normally whatever the metrics do, and the list it returns
\* holds, in the order of the registry, exactly the results of the metrics that did
\* not raise, each computed on the same three arrays
C7_ComputeAllIsolatesFailures ==
    ret.op = "compute_all" =>
        LET registry == ret.arg
            kept == Succeeding(registry)
        IN  /\ ret.ok
            /\ results = ret.val
            /\ Len(ret.val) = Len(kept)
            /\ \A j \in 1..Len(kept) :
                ret.val[j] = Compute(registry[kept[j]], predictions, ground_truth,
                                     sensitive_attribute).val

\* C7 witness: the second of five metrics raised and the three built-in ones after and
\* before it still delivered
C7_Witness ==
    /\ ret.op = "compute_all"
    /\ Len(ret.arg) = 5
    /\ ~Compute(ret.arg[2], predictions, ground_truth, sensitive_attribute).ok
    /\ Len(ret.val) = 3
    /\ ret.val[3].metric_name = "Predictive Parity"

\* C8: get_summary reports the length of the list as total_metrics, the number of
\* results whose passed is true as passed, and passed / total_metrics as pass_rate;
\* of the empty list it reports pass_rate 0
C8_SummaryCounts ==
    ret.op = "get_summary" =>
        LET rs == ret.arg
            sm == ret.val
            truthy == {i \in DOMAIN rs : rs[i].passed \in {"True", "np.True_"}}
        IN  /\ ret.ok
            /\ sm.total_metrics = Len(rs)
            /\ sm.passed = Cardinality(truthy)
            /\ sm.pass_rate.d > 0
            /\ sm.pass_rate.n * Len(rs) = Cardinality(truthy) * sm.pass_rate.d
            /\ Len(rs) = 0 => sm.pass_rate.n = 0

\* C8 witness: the summary of a list of three results of which two passed, one of
\* them with a numpy verdict
C8_Witness ==
    /\ ret.op = "get_summary"
    /\ Len(ret.arg) = 3
    /\ ret.arg[1].passed = "np.True_"
    /\ ret.arg[2].passed = "None"
    /\ ret.val.passed = 2

----------------------------------------------------------------------------
(* orient on any two label arrays, and decide on what it returned *)

\* every array of up to MaxLen labels
LabelArrays == UNION {[1..n -> Labels] : n \in 0..MaxLen}

InitOrient ==
    /\ InitLoop
    /\ InitOther
    /\ predictions \in LabelArrays
    /\ ground_truth \in LabelArrays
    /\ sensitive_attribute = <<>>
    /\ metrics = <<>>
    /\ results = <<>>

\* ooda.orient(predictions, ground_truth)
OrientArrays ==
    /\ ret = NoCall
    /\ OrientCall(predictions, ground_truth)
    /\ Advance("orient")
    /\ UNCHANGED <<inputVars, registryVars, otherVars>>

\* ooda.decide(orientation) on the orientation orient returned
DecideOriented ==
    /\ ret.op = "orient"
    /\ ret.ok
    /\ DecideCall(ret.val)
    /\ Advance("decide")
    /\ UNCHANGED <<inputVars, registryVars, otherVars>>

NextOrient == OrientArrays \/ DecideOriented

SpecOrient == InitOrient /\ [][NextOrient]_vars

----------------------------------------------------------------------------
(* InferenceQueue, src/realtime_inference.py *)

MaxQueue == 3

MaxRequests == 3

MaxBatch == 2

\* the requests put, by id
Requests == 1..MaxRequests

\* deque.append without the trim to maxlen
DequeAppendUnbounded(q, maxlen, item) == Append(q, item)

\* deque(maxlen=n).append(item): the item goes to the right end and, when the deque
\* then holds more than maxlen items, the leftmost one is removed; with maxlen 0 that
\* is the item just appended
DequeAppend(q, maxlen, item) ==
    IF Len(Append(q, item)) > maxlen THEN Tail(Append(q, item)) ELSE Append(q, item)

\* the first k items of q
Take(q, k) == SubSeq(q, 1, k)

\* q without its first k items
Drop(q, k) == SubSeq(q, k + 1, Len(q))

\* how many items get_batch pops: it stops at batch_size or when the deque is empty
BatchLen(q, batch_size) ==
    IF batch_size <= 0 THEN 0
    ELSE IF batch_size < Len(q) THEN batch_size ELSE Len(q)

\* InferenceQueue.put, under the lock: the call records the queue it found
Put ==
    \E item \in Requests :
        /\ queue' = DequeAppend(queue, maxsize, item)
        /\ ret' = Returned("put", [item |-> item, queue |-> queue], "None")
        /\ UNCHANGED <<oodaVars, pc, inputVars, registryVars, maxsize, alpha, df, engineVars>>

\* InferenceQueue.get_batch, under the lock
GetBatch ==
    \E batch_size \in 0..MaxBatch :
        /\ queue' = Drop(queue, BatchLen(queue, batch_size))
        /\ ret' = Returned("get_batch", [batch_size |-> batch_size, queue |-> queue],
                           Take(queue, BatchLen(queue, batch_size)))
        /\ UNCHANGED <<oodaVars, pc, inputVars, registryVars, maxsize, alpha, df, engineVars>>

\* InferenceQueue.size
QueueSize ==
    /\ ret' = Returned("size", [queue |-> queue], Len(queue))
    /\ UNCHANGED <<oodaVars, pc, inputVars, registryVars, otherVars>>

\* InferenceQueue(maxsize): an empty deque with that maxlen
InitQueue ==
    /\ InitLoop
    /\ InitIdle
    /\ queue = <<>>
    /\ maxsize \in 0..MaxQueue
    /\ alpha = DEFAULT_ALPHA
    /\ df = NoneData
    /\ InitEngineVars(DEFAULT_BATCH_SIZE)

NextQueue == Put \/ GetBatch \/ QueueSize

SpecQueue == InitQueue /\ [][NextQueue]_vars

----------------------------------------------------------------------------
(* calculate_fairness_metrics, src/pipeline.py *)

MaxRows == 2

\* x + y on floats
Plus(x, y) == [n |-> x.n * y.d + y.n * x.d, d |-> x.d * y.d, np |-> x.np \/ y.np]

\* for attr in ['region', 'gender', 'age_group']
FAIRNESS_ATTRIBUTES == <<"region", "gender", "age_group">>

\* df.groupby(attr)['prediction'].apply(lambda x: (x == 'positive').mean()): one rate
\* per group of the column; groupby drops the rows whose key is missing (nan)
GroupbyPositiveRates(frame, attr) == PositiveRates(frame.prediction, frame[attr])

\* the largest rate alone, in place of the difference
ParityMaxAlone(rates) ==
    IF Len(rates) = 0 THEN NpFrac(0, 0) ELSE PyMax(rates)

\* positive_rates.max() - positive_rates.min(): both are nan on an empty Series
Parity(rates) ==
    IF Len(rates) = 0 THEN NpFrac(0, 0) ELSE Minus(PyMax(rates), PyMin(rates))

\* np.mean of the three parities
MeanOfThree(a, b, c) ==
    [n |-> Plus(Plus(a, b), c).n, d |-> Plus(Plus(a, b), c).d * 3, np |-> TRUE]

\* calculate_fairness_metrics(df): the dict it returns
CalculateFairnessMetrics(frame) ==
    LET dpd(attr) == Parity(GroupbyPositiveRates(frame, attr))
    IN  [region_demographic_parity |-> dpd("region"),
         gender_demographic_parity |-> dpd("gender"),
         age_group_demographic_parity |-> dpd("age_group"),
         overall_fairness |->
            Minus(Frac(1, 1), MeanOfThree(dpd("region"), dpd("gender"), dpd("age_group")))]

\* the values of the attribute columns: two regions or none recorded, two genders,
\* one age group or none recorded
RegionValues == {1, 2, NaNGroup}

GenderValues == {1, 2}

AgeGroupValues == {1, NaNGroup}

\* the frames analyze_bias hands over: up to MaxRows rows, the three attribute
\* columns and the prediction column
Frames ==
    UNION {[region : [1..n -> RegionValues], gender : [1..n -> GenderValues],
            age_group : [1..n -> AgeGroupValues], prediction : [1..n -> MetricLabels]] :
           n \in 0..MaxRows}

CalculateFairnessMetricsCall ==
    /\ ret = NoCall
    /\ ret' = Returned("calculate_fairness_metrics", df, CalculateFairnessMetrics(df))
    /\ UNCHANGED <<oodaVars, pc, inputVars, registryVars, otherVars>>

\* a frame, and the arrays the metric classes get from it: the predictions against
\* the region column (ground truth does not enter either metric)
InitFairness ==
    /\ InitLoop
    /\ df \in Frames
    /\ predictions = df.prediction
    /\ ground_truth = df.prediction
    /\ sensitive_attribute = df.region
    /\ metrics = DefaultMetrics
    /\ results = <<>>
    /\ queue = <<>>
    /\ maxsize = DEFAULT_MAXSIZE
    /\ alpha = DEFAULT_ALPHA
    /\ InitEngineVars(DEFAULT_BATCH_SIZE)

NextFairness ==
    \/ ComputeDemographicParity
    \/ ComputeDisparateImpact
    \/ CalculateFairnessMetricsCall

SpecFairness == InitFairness /\ [][NextFairness]_vars

----------------------------------------------------------------------------
(* ABTester, src/ab_testing.py *)

MaxPDen == 20

\* the significance levels a tester is built with: the default, a stricter and a
\* laxer one
AlphaInputs == {DEFAULT_ALPHA, Frac(1, 100), Frac(1, 10)}

\* the p-values scipy may return: every k/MaxPDen in [0, 1], and nan (as ttest_ind
\* returns for samples without variance)
PValues == {NpFrac(k, MaxPDen) : k \in 0..MaxPDen} \cup {NpFrac(0, 0)}

\* the sign of mean_b - mean_a
Signs == {-1, 0, 1}

\* p_value <= self.alpha in place of <
IsSignificantLe(p_value, a) == PyBool(Le(p_value, a), p_value.np \/ a.np)

\* is_significant = p_value < self.alpha
IsSignificant(p_value, a) == PyBool(Lt(p_value, a), p_value.np \/ a.np)

\* the recommendation of t_test and mann_whitney_test, without the number it formats
RecommendVariant(is_significant, difference) ==
    IF Truthy(is_significant)
    THEN (IF difference > 0 THEN "Variant B is significantly better"
          ELSE "Variant A is significantly better")
    ELSE "No significant difference detected"

\* the fields of ABTestResult that depend on the test's p-value
ABTestResult(test_name, p_value, is_significant, recommendation) ==
    [test_name |-> test_name, p_value |-> p_value, is_significant |-> is_significant,
     confidence_level |-> Minus(Frac(1, 1), alpha), recommendation |-> recommendation]

\* one call of a test; the arrays it is called on are left out, what scipy made of
\* them is the p-value
ABTestCall(op, result) ==
    /\ ret' = Returned(op, "variants", result)
    /\ UNCHANGED <<oodaVars, pc, inputVars, registryVars, otherVars>>

\* a test that scipy refuses (mannwhitneyu on an empty sample, chi2_contingency on a
\* zero expected frequency, f_oneway on one variant)
ABTestRaises(op) ==
    /\ ret' = Raised(op, "variants", "ValueError")
    /\ UNCHANGED <<oodaVars, pc, inputVars, registryVars, otherVars>>

\* ABTester.t_test
TTest ==
    \E p_value \in PValues, difference \in Signs :
        ABTestCall("t_test",
                   ABTestResult("T-Test", p_value, IsSignificant(p_value, alpha),
                                RecommendVariant(IsSignificant(p_value, alpha), difference)))

\* ABTester.mann_whitney_test
MannWhitneyTest ==
    \/ \E p_value \in PValues, difference \in Signs :
        ABTestCall("mann_whitney_test",
                   ABTestResult("Mann-Whitney U Test", p_value, IsSignificant(p_value, alpha),
                                RecommendVariant(IsSignificant(p_value, alpha), difference)))
    \/ ABTestRaises("mann_whitney_test")

\* ABTester.chi_square_test
ChiSquareTest ==
    \/ \E p_value \in PValues :
        ABTestCall("chi_square_test",
                   ABTestResult("Chi-Square Test", p_value, IsSignificant(p_value, alpha),
                                IF Truthy(IsSignificant(p_value, alpha))
                                THEN "Distributions are significantly different"
                                ELSE "No significant difference in distributions"))
    \/ ABTestRaises("chi_square_test")

\* ABTester.compare_multiple_variants: the dict it returns, without the means
CompareMultipleVariants ==
    \/ \E p_value \in PValues :
        ABTestCall("compare_multiple_variants",
                   [test_name |-> "ANOVA", p_value |-> p_value,
                    is_significant |-> IsSignificant(p_value, alpha),
                    recommendation |-> IF Truthy(IsSignificant(p_value, alpha))
                                       THEN "Significant difference found"
                                       ELSE "No significant difference between variants"])
    \/ ABTestRaises("compare_multiple_variants")

\* ABTester(alpha)
InitAB ==
    /\ InitLoop
    /\ InitIdle
    /\ queue = <<>>
    /\ maxsize = DEFAULT_MAXSIZE
    /\ alpha \in AlphaInputs
    /\ InitEngineVars(DEFAULT_BATCH_SIZE)
    /\ df = NoneData

NextAB == TTest \/ MannWhitneyTest \/ ChiSquareTest \/ CompareMultipleVariants

SpecAB == InitAB /\ [][NextAB]_vars

\* line 296: the number of samples drawn from each posterior
n_samples == 100000

\* prior_alpha and prior_beta, both 1 by default
DEFAULT_PRIOR == 1

CHOOSE_B_ABOVE == Frac(95, 100)

CHOOSE_A_BELOW == Frac(5, 100)

\* the counts bayesian_ab_test is called with, as <<successes of A, trials of A,
\* successes of B, trials of B>>: the example of the module scaled down, no trial at
\* all, and more successes than trials
BayesInputs == {<<8, 10, 9, 10>>, <<0, 0, 0, 0>>, <<3, 2, 1, 2>>}

\* np.random.beta raises ValueError unless both parameters of a posterior are positive
PosteriorRaises(counts) ==
    \/ DEFAULT_PRIOR + counts[1] <= 0
    \/ DEFAULT_PRIOR + counts[2] - counts[1] <= 0
    \/ DEFAULT_PRIOR + counts[3] <= 0
    \/ DEFAULT_PRIOR + counts[4] - counts[3] <= 0

\* the recommendation with >= and <= in place of > and <
BayesRecommendationInclusive(prob_b_better) ==
    IF Le(CHOOSE_B_ABOVE, prob_b_better) THEN "Choose B"
    ELSE IF Le(prob_b_better, CHOOSE_A_BELOW) THEN "Choose A"
    ELSE "Inconclusive - continue testing"

\* lines 318-322: the recommendation, without the number it formats
BayesRecommendation(prob_b_better) ==
    IF Lt(CHOOSE_B_ABOVE, prob_b_better) THEN "Choose B"
    ELSE IF Lt(prob_b_better, CHOOSE_A_BELOW) THEN "Choose A"
    ELSE "Inconclusive - continue testing"

\* the fields of the dict bayesian_ab_test returns that depend on P(B > A)
BayesResult(prob_b_better) ==
    [prob_b_better_than_a |-> prob_b_better,
     prob_a_better_than_b |-> Minus(Frac(1, 1), prob_b_better),
     recommendation |-> BayesRecommendation(prob_b_better)]

\* ABTester.bayesian_ab_test: np.mean(samples_b > samples_a) is k / n_samples for the
\* number k of samples in which B came out above A, whatever the random draw gave
BayesianABTest ==
    \E counts \in BayesInputs :
        /\ ret = NoCall
        /\ IF PosteriorRaises(counts)
           THEN ret' = Raised("bayesian_ab_test", counts, "ValueError")
           ELSE \E k \in 0..n_samples :
                    ret' = Returned("bayesian_ab_test", counts, BayesResult(NpFrac(k, n_samples)))
        /\ UNCHANGED <<oodaVars, pc, inputVars, registryVars, otherVars>>

SpecBayes == Init /\ [][BayesianABTest]_vars

----------------------------------------------------------------------------
(* evaluate_dataframe, src/custom_metrics.py, and validate_dataframe,
   src/validators.py *)

\* the defaults of evaluate_dataframe
PREDICTION_COL == "prediction"

GROUND_TRUTH_COL == "sentiment"

SENSITIVE_COLS == <<"region", "gender", "age_group">>

EvalColumns == {"prediction", "sentiment", "region", "gender", "age_group"}

\* the columns of the frame, and its number of rows
ColumnsOf(frame) == DOMAIN frame

NRows(frame) ==
    IF ColumnsOf(frame) = {} THEN 0 ELSE Len(frame[CHOOSE c \in ColumnsOf(frame) : TRUE])

\* lines 399-420: the loop over sensitive_cols from position i on, acc being
\* results_by_attribute so far. A sensitive column that is missing is skipped; indexing
\* a missing prediction or ground truth column raises KeyError.
RECURSIVE EvaluateFrom(_, _, _, _)
EvaluateFrom(frame, sensitive_cols, i, acc) ==
    IF i > Len(sensitive_cols) THEN [ok |-> TRUE, val |-> acc]
    ELSE IF sensitive_cols[i] \notin ColumnsOf(frame)
    THEN EvaluateFrom(frame, sensitive_cols, i + 1, acc)
    ELSE IF PREDICTION_COL \notin ColumnsOf(frame) \/ GROUND_TRUTH_COL \notin ColumnsOf(frame)
    THEN [ok |-> FALSE, val |-> "KeyError"]
    ELSE LET metric_results == ComputeAll(DefaultMetrics, frame[PREDICTION_COL],
                                          frame[GROUND_TRUTH_COL], frame[sensitive_cols[i]])
         IN  EvaluateFrom(frame, sensitive_cols, i + 1,
                Append(acc, [attribute |-> sensitive_cols[i],
                             summary |-> GetSummary(metric_results),
                             details |-> metric_results]))

\* BiasMetricsEvaluator.evaluate_dataframe
EvaluateDataframe(frame, sensitive_cols) == EvaluateFrom(frame, sensitive_cols, 1, <<>>)

\* df[col].isnull().sum(): a missing group is the only null the frames hold, the
\* label columns hold none
NullCount(frame, col) ==
    IF col \in {PREDICTION_COL, GROUND_TRUTH_COL} THEN 0
    ELSE Cardinality({i \in DOMAIN frame[col] : frame[col][i] = NaNGroup})

\* df.duplicated().sum(): the rows equal to an earlier row
DuplicatedCount(frame) ==
    Cardinality({i \in 1..NRows(frame) :
        \E j \in 1..(i - 1) : \A c \in ColumnsOf(frame) : frame[c][i] = frame[c][j]})

\* DataFrameValidator.validate_dataframe with min_rows = 1 and max_nulls_ratio = 0.1:
\* the message of the ValidationError it raises, or "None" when it returns
ValidateDataframe(frame, required_columns) ==
    IF NRows(frame) = 0 THEN "DataFrame is empty"
    ELSE IF NRows(frame) < 1 THEN "DataFrame has too few rows"
    ELSE IF required_columns \ ColumnsOf(frame) # {} THEN "Missing required columns"
    ELSE IF \E c \in required_columns : NullCount(frame, c) * 10 > NRows(frame)
    THEN "Column has too many null values"
    ELSE IF DuplicatedCount(frame) * 2 > NRows(frame)
    THEN "DataFrame has too many duplicate rows"
    ELSE "None"

\* a dataset of two rows with every column, one of its age groups not recorded, and the
\* same columns without a row
FullFrame ==
    [prediction |-> <<"positive", "negative">>, sentiment |-> <<"positive", "positive">>,
     region |-> <<1, 2>>, gender |-> <<1, 1>>, age_group |-> <<1, NaNGroup>>]

FullFrameNoRows ==
    [prediction |-> <<>>, sentiment |-> <<>>, region |-> <<>>, gender |-> <<>>,
     age_group |-> <<>>]

\* the frame with the given columns only
Restrict(frame, columns) == [c \in columns |-> frame[c]]

\* the datasets handed over: each with any of its columns missing
EvalFrames ==
    {Restrict(frame, columns) : frame \in {FullFrame, FullFrameNoRows},
                                columns \in SUBSET EvalColumns}

\* the sensitive columns a caller asks for: the default list, or the region alone
SensitiveColsInputs == {SENSITIVE_COLS, <<"region">>}

\* the columns a caller requires of validate_dataframe: those evaluate_dataframe
\* reads by default, or those without the age group
RequiredColumnsInputs == {EvalColumns, EvalColumns \ {"age_group"}}

EvaluateDataframeCall ==
    \E sensitive_cols \in SensitiveColsInputs :
        LET out == EvaluateDataframe(df, sensitive_cols)
            arg == [sensitive_cols |-> sensitive_cols]
        IN  /\ ret = NoCall
            /\ ret' = IF out.ok THEN Returned("evaluate_dataframe", arg, out.val)
                      ELSE Raised("evaluate_dataframe", arg, out.val)
            /\ UNCHANGED <<oodaVars, pc, inputVars, registryVars, otherVars>>

ValidateDataframeCall ==
    \E required_columns \in RequiredColumnsInputs :
        LET message == ValidateDataframe(df, required_columns)
            arg == [required_columns |-> required_columns]
        IN  /\ ret = NoCall
            /\ ret' = IF message = "None" THEN Returned("validate_dataframe", arg, "None")
                      ELSE Raised("validate_dataframe", arg, <<"ValidationError", message>>)
            /\ UNCHANGED <<oodaVars, pc, inputVars, registryVars, otherVars>>

InitEvaluate ==
    /\ InitLoop
    /\ predictions = <<>>
    /\ ground_truth = <<>>
    /\ sensitive_attribute = <<>>
    /\ metrics = DefaultMetrics
    /\ results = <<>>
    /\ queue = <<>>
    /\ maxsize = DEFAULT_MAXSIZE
    /\ alpha = DEFAULT_ALPHA
    /\ InitEngineVars(DEFAULT_BATCH_SIZE)
    /\ df \in EvalFrames

NextEvaluate == EvaluateDataframeCall \/ ValidateDataframeCall

SpecEvaluate == InitEvaluate /\ [][NextEvaluate]_vars

----------------------------------------------------------------------------
(* predict_sentiment, src/pipeline.py *)

MaxTexts == 3

MaxPredIdx == 3

\* the texts of a call: up to MaxTexts texts, each empty or not
TextInputs == UNION {[1..n -> {"", "Great service"}] : n \in 0..MaxTexts}

\* a size that counts the texts that are not empty
DummySizeSkipsEmpty(texts) == Len(SelectSeq(texts, LAMBDA t : t # ""))

\* size=len(texts)
DummySize(texts) == Len(texts)

\* np.random.choice(['positive', 'negative', 'neutral'], size): every array of that
\* many labels
RandomChoice(size) == [1..size -> Labels]

\* label_map.get(pred_idx, 'neutral')
LabelMapGet(pred_idx) ==
    CASE pred_idx = 0 -> "negative"
      [] pred_idx = 1 -> "neutral"
      [] pred_idx = 2 -> "positive"
      [] OTHER -> "neutral"

\* the outcomes of predict_sentiment: without a model or without a tokenizer a random
\* label per text; with both, the label of the class the model ranks first for each
\* text, or the exception the tokenizer or the model raised
PredictOutcomes(texts, model, tokenizer) ==
    LET arg == [texts |-> texts, model |-> model, tokenizer |-> tokenizer]
    IN  IF model = "None" \/ tokenizer = "None"
        THEN {Returned("predict_sentiment", arg, labels) :
                labels \in RandomChoice(DummySize(texts))}
        ELSE {Returned("predict_sentiment", arg, [i \in 1..Len(texts) |-> LabelMapGet(idx[i])]) :
                idx \in [1..Len(texts) -> 0..MaxPredIdx]}
             \cup {Raised("predict_sentiment", arg, "Exception")}

PredictSentiment ==
    \E texts \in TextInputs, model \in {"None", "model"}, tokenizer \in {"None", "tokenizer"} :
        /\ ret = NoCall
        /\ ret' \in PredictOutcomes(texts, model, tokenizer)
        /\ UNCHANGED <<oodaVars, pc, inputVars, registryVars, otherVars>>

SpecPredict == Init /\ [][PredictSentiment]_vars

----------------------------------------------------------------------------
(* ModelLoader, src/model_loader.py *)

NonePair == [model |-> "None", tokenizer |-> "None"]

\* what can happen inside each strategy: it loads, or one of its steps raises; the
\* cache strategy can also find no cache directory or no cached model in it
LocalSteps == {"loaded", "AutoConfig raises", "AutoTokenizer raises", "torch.load raises",
               "load_state_dict raises"}

HubSteps == {"loaded", "AutoTokenizer raises", "AutoModel raises", "model.to raises"}

CacheSteps == {"loaded", "no cache dir", "no cached model", "AutoTokenizer raises",
               "AutoModel raises"}

\* try: ... return model, tokenizer; except Exception: return None, None
LoadLocalWithConfig(step) ==
    IF step = "loaded" THEN [model |-> "local model", tokenizer |-> "hub tokenizer"] ELSE NonePair

LoadFromHub(step) ==
    IF step = "loaded" THEN [model |-> "hub model", tokenizer |-> "hub tokenizer"] ELSE NonePair

LoadFromCache(step) ==
    IF step = "loaded" THEN [model |-> "cached model", tokenizer |-> "cached tokenizer"] ELSE NonePair

\* a local strategy that runs whenever a path is configured
LocalAppliesWhenConfigured(local_path, exists) == local_path \notin {"None", ""}

\* if self.local_path and os.path.exists(self.local_path)
LocalApplies(local_path, exists) == local_path \notin {"None", ""} /\ exists

\* load_model_and_tokenizer in the environment env; tried lists the strategies it ran
LoadModelAndTokenizer(env) ==
    LET first == IF LocalApplies(env.local_path, env.exists) THEN <<"local">> ELSE <<>>
        local == IF first = <<>> THEN NonePair ELSE LoadLocalWithConfig(env.local)
        hub   == LoadFromHub(env.hub)
        cache == LoadFromCache(env.cache)
    IN  IF local.model # "None" THEN [result |-> local, tried |-> first]
        ELSE IF hub.model # "None" THEN [result |-> hub, tried |-> Append(first, "hub")]
        ELSE IF cache.model # "None"
             THEN [result |-> cache, tried |-> first \o <<"hub", "cache">>]
             ELSE [result |-> NonePair, tried |-> first \o <<"hub", "cache">>]

\* a path is configured or not, and a file is there or not
LoaderEnvs ==
    [local_path : {"None", "", "model.pt"}, exists : BOOLEAN,
     local : LocalSteps, hub : HubSteps, cache : CacheSteps]

LoadModelAndTokenizerCall ==
    \E env \in LoaderEnvs :
        /\ ret = NoCall
        /\ (env.local_path \in {"None", ""} => ~env.exists)
        /\ ret' = Returned("load_model_and_tokenizer", env, LoadModelAndTokenizer(env))
        /\ UNCHANGED <<oodaVars, pc, inputVars, registryVars, otherVars>>

SpecLoader == Init /\ [][LoadModelAndTokenizerCall]_vars

----------------------------------------------------------------------------
(* RealtimeInferenceEngine, src/realtime_inference.py *)

\* a lock that lets every thread in
LockIgnored(l) == TRUE

\* with self.lock: a thread enters when no thread holds the lock
LockFree(l) == l = 0

\* an engine that takes requests whether it runs or not
EngineAcceptsAlways(e) == TRUE

\* if not self.running: raise RuntimeError
EngineAccepts(e) == e.running

\* a thread that was started and has neither returned from _worker nor died
Live(t) == t.pc \notin {"idle", "exited", "died"}

\* a thread inside _process_batch
InProcessBatch(t) ==
    t.pc \in {"process", "load_total", "store_total", "load_count", "store_count"}

\* start(): nothing when the engine runs already, else a new thread enters _worker
Start ==
    /\ caller = "ready"
    /\ IF engine.running
       THEN UNCHANGED <<engine, threads>>
       ELSE \E w \in Workers :
                /\ threads[w].pc = "idle"
                /\ \A v \in 1..(w - 1) : threads[v].pc # "idle"
                /\ engine' = [engine EXCEPT !.running = TRUE, !.worker_thread = w]
                /\ threads' = [threads EXCEPT ![w].pc = "while"]
    /\ ret' = Returned("start", [running |-> engine.running], "None")
    /\ UNCHANGED <<oodaVars, pc, inputVars, registryVars, queue, maxsize, alpha, df,
                   lock, caller, journal>>

\* stop(), up to the join: running is cleared, and the caller joins the thread that
\* start created last
StopBegin ==
    /\ caller = "ready"
    /\ engine' = [engine EXCEPT !.running = FALSE]
    /\ caller' = IF engine.worker_thread # NoThread THEN "join" ELSE "ready"
    /\ UNCHANGED <<oodaVars, ret, pc, inputVars, registryVars, queue, maxsize, alpha, df,
                   lock, threads, journal>>

\* join(timeout=5) returns because the thread has ended
JoinReturns ==
    /\ caller = "join"
    /\ ~Live(threads[engine.worker_thread])
    /\ caller' = "ready"
    /\ UNCHANGED <<oodaVars, ret, pc, inputVars, registryVars, queue, maxsize, alpha, df,
                   lock, engine, threads, journal>>

\* join(timeout=5) returns after five seconds while the thread is still inside
\* _process_batch
JoinTimesOut ==
    /\ caller = "join"
    /\ InProcessBatch(threads[engine.worker_thread])
    /\ caller' = "ready"
    /\ UNCHANGED <<oodaVars, ret, pc, inputVars, registryVars, queue, maxsize, alpha, df,
                   lock, engine, threads, journal>>

\* predict_async, up to the await: RuntimeError when the engine does not run, else a
\* request with a fresh id is put into the queue under its lock
PredictAsync ==
    LET arg == [running |-> engine.running]
        id  == Len(journal.put) + 1
    IN  /\ IF EngineAccepts(engine)
           THEN /\ id <= MaxRequests
                /\ LockFree(lock)
                /\ queue' = DequeAppend(queue, maxsize, id)
                /\ journal' = [journal EXCEPT !.put = Append(@, id),
                                               !.answered = Append(@, 0)]
                /\ ret' = Returned("predict_async", arg, "awaiting")
           ELSE /\ ret' = Raised("predict_async", arg, "RuntimeError")
                /\ UNCHANGED <<queue, journal>>
        /\ UNCHANGED <<oodaVars, pc, inputVars, registryVars, maxsize, alpha, df,
                       lock, engine, threads, caller>>

\* what a step of a worker thread leaves alone besides the engine's own state
WorkerFrame == <<oodaVars, ret, pc, inputVars, registryVars, maxsize, alpha, df, caller>>

\* while self.running: if self.queue.is_empty(): sleep and continue; else wait for the
\* batch to fill or for max_wait_time to pass, which changes nothing. The thread
\* returns from _worker when running is cleared, polls on while the queue is empty
\* and goes for a batch when it is not
WhileRunning(w) ==
    /\ threads[w].pc = "while"
    /\ engine.running => LockFree(lock)
    /\ threads' = [threads EXCEPT ![w].pc =
                      IF ~engine.running THEN "exited"
                      ELSE IF queue = <<>> THEN "while" ELSE "get_batch"]
    /\ UNCHANGED <<WorkerFrame, queue, lock, engine, journal>>

\* get_batch: with self.lock: batch = []
GetBatchEnter(w) ==
    /\ threads[w].pc = "get_batch"
    /\ LockFree(lock)
    /\ lock' = w
    /\ threads' = [threads EXCEPT ![w].pc = "popleft", ![w].seen = queue]
    /\ UNCHANGED <<WorkerFrame, queue, engine, journal>>

\* while len(batch) < batch_size and self.queue: batch.append(self.queue.popleft());
\* return batch, which releases the lock
GetBatchReturn(w) ==
    LET batch == Take(queue, BatchLen(queue, engine.batch_size))
    IN  /\ threads[w].pc = "popleft"
        /\ queue' = Drop(queue, BatchLen(queue, engine.batch_size))
        /\ lock' = 0
        /\ journal' = [journal EXCEPT !.delivered = @ \o batch]
        /\ threads' = [threads EXCEPT ![w].pc = "returned", ![w].batch = batch]
        /\ UNCHANGED <<WorkerFrame, engine>>

\* if batch: self._process_batch(batch)
IfBatch(w) ==
    /\ threads[w].pc = "returned"
    /\ threads' = [threads EXCEPT ![w].pc = IF threads[w].batch # <<>> THEN "process" ELSE "while",
                                  ![w].seen = <<>>]
    /\ UNCHANGED <<WorkerFrame, queue, lock, engine, journal>>

\* _process_batch up to the counters: the tokenizer and the model run, and the
\* callback of every request of the batch is called with its result
ProcessBatch(w) ==
    LET called == {threads[w].batch[k] : k \in DOMAIN threads[w].batch}
    IN  /\ threads[w].pc = "process"
        /\ journal' = [journal EXCEPT !.answered =
                          [r \in DOMAIN @ |-> IF r \in called THEN @[r] + 1 ELSE @[r]]]
        /\ threads' = [threads EXCEPT ![w].pc = "load_total"]
        /\ UNCHANGED <<WorkerFrame, queue, lock, engine>>

\* the tokenizer or the model raises: nothing in _worker catches it and the thread ends
ProcessBatchRaises(w) ==
    /\ threads[w].pc = "process"
    /\ threads' = [threads EXCEPT ![w].pc = "died", ![w].batch = <<>>]
    /\ UNCHANGED <<WorkerFrame, queue, lock, engine, journal>>

\* self.total_requests += len(batch): the read
LoadTotal(w) ==
    /\ threads[w].pc = "load_total"
    /\ threads' = [threads EXCEPT ![w].pc = "store_total", ![w].loaded = engine.total_requests]
    /\ UNCHANGED <<WorkerFrame, queue, lock, engine, journal>>

\* self.total_requests += len(batch): the write
StoreTotal(w) ==
    /\ threads[w].pc = "store_total"
    /\ engine' = [engine EXCEPT !.total_requests = threads[w].loaded + Len(threads[w].batch)]
    /\ threads' = [threads EXCEPT ![w].pc = "load_count", ![w].loaded = 0]
    /\ UNCHANGED <<WorkerFrame, queue, lock, journal>>

\* self.batch_count += 1: the read
LoadCount(w) ==
    /\ threads[w].pc = "load_count"
    /\ threads' = [threads EXCEPT ![w].pc = "store_count", ![w].loaded = engine.batch_count]
    /\ UNCHANGED <<WorkerFrame, queue, lock, engine, journal>>

\* self.batch_count += 1: the write, after which _process_batch returns
StoreCount(w) ==
    /\ threads[w].pc = "store_count"
    /\ engine' = [engine EXCEPT !.batch_count = threads[w].loaded + 1]
    /\ journal' = [journal EXCEPT !.batches = @ + 1, !.requests = @ + Len(threads[w].batch)]
    /\ threads' = [threads EXCEPT ![w].pc = "while", ![w].batch = <<>>, ![w].loaded = 0]
    /\ UNCHANGED <<WorkerFrame, queue, lock>>

\* one step of the thread w in _worker
Worker(w) ==
    \/ WhileRunning(w)
    \/ GetBatchEnter(w)
    \/ GetBatchReturn(w)
    \/ IfBatch(w)
    \/ ProcessBatch(w)
    \/ ProcessBatchRaises(w)
    \/ LoadTotal(w)
    \/ StoreTotal(w)
    \/ LoadCount(w)
    \/ StoreCount(w)

\* the engines that are run: a queue of one request, and a queue of MaxQueue requests
\* with batches of one and of MaxBatch requests
EngineConfigs ==
    {[maxsize |-> 1, batch_size |-> 1], [maxsize |-> MaxQueue, batch_size |-> 1],
     [maxsize |-> MaxQueue, batch_size |-> MaxBatch]}

\* RealtimeInferenceEngine(batch_size, max_queue_size)
InitEngine ==
    /\ InitLoop
    /\ InitIdle
    /\ queue = <<>>
    /\ alpha = DEFAULT_ALPHA
    /\ df = NoneData
    /\ \E config \in EngineConfigs :
          /\ maxsize = config.maxsize
          /\ InitEngineVars(config.batch_size)

NextEngine ==
    \/ Start
    \/ StopBegin
    \/ JoinReturns
    \/ JoinTimesOut
    \/ PredictAsync
    \/ \E w \in Workers : Worker(w)

SpecEngine == InitEngine /\ [][NextEngine]_vars

\* the scheduler lets every thread that can take a step take one
SpecEngineFair == SpecEngine /\ \A w \in Workers : WF_vars(Worker(w))

----------------------------------------------------------------------------
(* Claims about degenerate input of observe and orient *)

\* C11: observe rejects a degenerate dataset: called with a DataFrame that has no
\* columns or no rows it raises instead of returning a snapshot (and so appends
\* nothing to observations).
C11_ObserveRejectsDegenerate ==
    (/\ ret.op = "observe"
     /\ ret.arg.isframe
     /\ (ret.arg.nrows = 0 \/ Len(ret.arg.columns) = 0))
        => ~ret.ok

\* the arrays of test_orient
TestPredictions == <<"positive", "negative", "neutral">>

TestGroundTruth == <<"positive", "negative", "positive">>

\* the number of positions at which the two arrays hold the same label
Matches == Cardinality({i \in DOMAIN predictions : predictions[i] = ground_truth[i]})

\* C12: for predictions and ground truth of equal length, not empty, orient returns
\* (and records) accuracy = positions with equal labels / positions, a number in
\* [0, 1]; on the arrays of test_orient the accuracy is 2/3 and decide on that
\* orientation answers severity high with priority 1.
C12_OrientAccuracy ==
    /\ (/\ ret.op = "orient"
        /\ Len(predictions) = Len(ground_truth)
        /\ Len(predictions) > 0)
            => /\ ret.ok
               /\ NumEq(ret.val.accuracy, Frac(Matches, Len(predictions)))
               /\ Le(PyZero, ret.val.accuracy)
               /\ Le(ret.val.accuracy, Frac(1, 1))
               /\ Last(orientations) = ret.val
    /\ (predictions = TestPredictions /\ ground_truth = TestGroundTruth)
            => /\ ret.op = "orient" => NumEq(ret.val.accuracy, Frac(2, 3))
               /\ ret.op = "decide"
                    => /\ ret.arg = Last(orientations)
                       /\ ret.val.severity = "high"
                       /\ ret.val.priority = 1

C12_Witness ==
    /\ predictions = TestPredictions
    /\ ground_truth = TestGroundTruth
    /\ ret.op = "decide"
    /\ NumEq(ret.arg.accuracy, Frac(2, 3))
    /\ ret.val.severity = "high"

\* C13: orient rejects predictions and ground truth of different lengths: it raises
\* rather than return an accuracy (and so appends nothing to orientations).
C13_OrientRejectsMismatch ==
    (ret.op = "orient" /\ Len(predictions) # Len(ground_truth)) => ~ret.ok

----------------------------------------------------------------------------
(* Claims about InferenceQueue *)

\* C14 as stated: the queue never holds more than maxsize requests, put never blocks
\* or fails, and a put on a full queue discards the oldest queued request to make room
\* for the new one, which is queued last.
C14_PutDropsOldest ==
    /\ Len(queue) <= maxsize
    /\ ENABLED Put
    /\ ret.op = "put"
        => /\ ret.ok
           /\ Len(queue) > 0
           /\ Last(queue) = ret.arg.item
           /\ IF Len(ret.arg.queue) = maxsize
              THEN queue = Append(Tail(ret.arg.queue), ret.arg.item)
              ELSE queue = Append(ret.arg.queue, ret.arg.item)

\* C14: the queue never holds more than maxsize requests and put never blocks or
\* fails. With maxsize >= 1 a put queues the new request last, and on a full queue
\* discards the oldest queued request; with maxsize = 0 every put discards the new
\* request itself and the queue stays empty.
C14_QueueBounded ==
    /\ Len(queue) <= maxsize
    /\ ENABLED Put
    /\ ret.op = "put"
        => /\ ret.ok
           /\ IF maxsize = 0 THEN queue = <<>> /\ ret.arg.queue = <<>>
              ELSE IF Len(ret.arg.queue) = maxsize
              THEN queue = Append(Tail(ret.arg.queue), ret.arg.item)
              ELSE queue = Append(ret.arg.queue, ret.arg.item)

\* a put on a full queue of two requests has discarded the oldest
C14_Witness ==
    /\ ret.op = "put"
    /\ maxsize = 2
    /\ Len(ret.arg.queue) = maxsize
    /\ ret.arg.queue[1] # ret.arg.queue[2]
    /\ queue = <<ret.arg.queue[2], ret.arg.item>>

----------------------------------------------------------------------------
(* Claims about identical predictions *)

\* every sample has the same prediction
IdenticalPredictions == \A i, j \in DOMAIN predictions : predictions[i] = predictions[j]

\* the column records a group for at least one row
HasValue(column) == \E i \in DOMAIN column : column[i] # NaNGroup

FairnessComputed == ret.op = "calculate_fairness_metrics" /\ ret.ok

\* the metric classes on identical predictions: parity 0, impact 1.0, both passed
IdenticalIsFairByMetric ==
    /\ (ret.op = "compute" /\ ret.arg.kind = "DemographicParity")
        => /\ ret.ok
           /\ NumEq(ret.val.value, PyZero)
           /\ Truthy(ret.val.passed)
    /\ (ret.op = "compute" /\ ret.arg.kind = "DisparateImpact")
        => /\ ret.ok
           /\ NumEq(ret.val.value, Frac(1, 1))
           /\ Truthy(ret.val.passed)

\* calculate_fairness_metrics reports parity 0 per attribute and overall fairness 1.0
ReportsFullyFair ==
    /\ ret.ok
    /\ NumEq(ret.val.region_demographic_parity, PyZero)
    /\ NumEq(ret.val.gender_demographic_parity, PyZero)
    /\ NumEq(ret.val.age_group_demographic_parity, PyZero)
    /\ NumEq(ret.val.overall_fairness, Frac(1, 1))

----------------------------------------------------------------------------
(* Further claims about the metrics *)

Verdicts == {"True", "np.True_", "False", "np.False_"}

BuiltIn == {"DemographicParity", "EqualizedOdds", "DisparateImpact", "PredictiveParityDifference"}

\* C16: a result of one of the four built-in metrics has passed = None only when the
\* sensitive attribute holds fewer than two groups: on two or more groups passed is
\* True or False.
C16_PassedNoneOnlyBelowTwoGroups ==
    (ret.op = "compute" /\ ret.ok /\ ret.arg.kind \in BuiltIn)
        => /\ ret.val.passed = "None" => Cardinality(DistinctGroups) < 2
           /\ Cardinality(DistinctGroups) >= 2 => ret.val.passed \in Verdicts

\* PredictiveParityDifference has judged two groups and failed them
C16_Witness ==
    /\ ret.op = "compute"
    /\ ret.ok
    /\ ret.arg.kind = "PredictiveParityDifference"
    /\ Cardinality(GroupSet) >= 2
    /\ ret.val.passed \in Verdicts
    /\ ~Truthy(ret.val.passed)

\* a group's true and false positive rate; a group without actual positives
\* (negatives) has the rate 0
TprOf(g) == IF ActualPos(g) > 0 THEN Frac(TruePos(g), ActualPos(g)) ELSE PyZero

FprOf(g) == IF ActualNeg(g) > 0 THEN Frac(FalsePos(g), ActualNeg(g)) ELSE PyZero

\* the largest minus the smallest rate over the groups
SpreadOf(Rate(_)) ==
    LET hi == CHOOSE g \in DistinctGroups : \A h \in DistinctGroups : Le(Rate(h), Rate(g))
        lo == CHOOSE g \in DistinctGroups : \A h \in DistinctGroups : Le(Rate(g), Rate(h))
    IN  Minus(Rate(hi), Rate(lo))

\* C17: for two or more groups EqualizedOdds returns the larger of the TPR spread and
\* the FPR spread, where TPR = (predicted and actually positive) / (actually
\* positive), FPR = (predicted positive, not actually positive) / (not actually
\* positive) and a spread is the largest minus the smallest rate over the groups;
\* passed is true exactly when the value is at most the threshold.
C17_EqualizedOddsValue ==
    (Computed("EqualizedOdds") /\ Cardinality(DistinctGroups) >= 2) =>
        LET v == ret.val.value
            tpr == SpreadOf(TprOf)
            fpr == SpreadOf(FprOf)
        IN  /\ \/ Le(fpr, tpr) /\ NumEq(v, tpr)
               \/ Le(tpr, fpr) /\ NumEq(v, fpr)
            /\ ret.val.passed \in Verdicts
            /\ Truthy(ret.val.passed) <=> Le(v, ret.arg.threshold)

\* the FPR spread (1/2) exceeds the TPR spread (0) and decides the value
C17_Witness ==
    /\ Computed("EqualizedOdds")
    /\ Cardinality(GroupSet) >= 2
    /\ NumEq(SpreadOf(TprOf), PyZero)
    /\ NumEq(SpreadOf(FprOf), Frac(1, 2))
    /\ NumEq(ret.val.value, Frac(1, 2))
    /\ Truthy(ret.val.passed)

----------------------------------------------------------------------------
(* Claims about register *)

\* the names under which the registry holds a metric
Names(registry) == {registry[i].name : i \in DOMAIN registry}

\* the metrics the registry holds under the name
Under(registry, name) == {registry[i] : i \in {j \in DOMAIN registry : registry[j].name = name}}

\* one entry per name
OnePerName(registry) == Cardinality(Names(registry)) = Len(registry)

\* what a call register(m) has done to the mapping
Registered(m) ==
    /\ Under(metrics', m.name) = {m}
    /\ Names(metrics') = Names(metrics) \cup {m.name}
    /\ \A name \in Names(metrics) \ {m.name} : Under(metrics', name) = Under(metrics, name)
    /\ Len(metrics') = IF m.name \in Names(metrics) THEN Len(metrics) ELSE Len(metrics) + 1

\* C18: register adds or overwrites by name: after register(m) the mapping sends
\* m.name to m, every entry under another name is unchanged, a metric registered
\* under a known name replaces the earlier one without adding an entry, and so the
\* registry always holds exactly one metric per name.
C18_RegisterOverwritesByName ==
    /\ OnePerName(metrics)
    /\ [][/\ OnePerName(metrics')
          /\ ret'.op = "register" => Registered(ret'.arg)]_vars

\* a metric of the user has replaced the built-in Equalized Odds, in its place
C18_Witness ==
    /\ ret.op = "register"
    /\ ret.arg.name = "Equalized Odds"
    /\ ret.arg.kind = "Custom"
    /\ metrics[2] = ret.arg
    /\ Len(metrics) >= 5

----------------------------------------------------------------------------
(* Claims about ABTester *)

SignificanceTests == {"t_test", "mann_whitney_test", "chi_square_test", "compare_multiple_variants"}

\* the result of a significance test is significant exactly when its p-value is
\* below the tester's alpha
SignificantBelowAlpha ==
    (ret.op \in SignificanceTests /\ ret.ok)
        => /\ ret.val.is_significant \in Verdicts
           /\ Truthy(ret.val.is_significant)
                <=> (/\ ~IsNaN(ret.val.p_value)
                     /\ ret.val.p_value.n * alpha.d < alpha.n * ret.val.p_value.d)

C20_BayesRecommendation ==
    (ret.op = "bayesian_ab_test" /\ ret.ok) =>
        LET p == ret.val.prob_b_better_than_a
            q == ret.val.prob_a_better_than_b
        IN  /\ p.d > 0
            /\ ret.val.recommendation = "Choose B" <=> 100 * p.n > 95 * p.d
            /\ ret.val.recommendation = "Choose A" <=> 100 * p.n < 5 * p.d
            /\ ret.val.recommendation = "Inconclusive - continue testing"
                <=> (100 * p.n <= 95 * p.d /\ 100 * p.n >= 5 * p.d)
            \* p + q = 1, the two being fractions of the same denominator
            /\ q.d = p.d
            /\ p.n + q.n = p.d

\* P(B > A) is exactly 0.95 and the test stays inconclusive
C20_Witness ==
    /\ ret.op = "bayesian_ab_test"
    /\ ret.ok
    /\ NumEq(ret.val.prob_b_better_than_a, Frac(95, 100))
    /\ ret.val.recommendation = "Inconclusive - continue testing"

----------------------------------------------------------------------------
(* Claims about missing columns *)

\* C21: no metric is computed unless the required columns are present: when the
\* prediction column, the ground truth column or a requested sensitive column is
\* missing, evaluate_dataframe raises a validation error, and when a required column
\* is missing validate_dataframe raises a ValidationError; neither returns.
C21_MissingColumnIsRejected ==
    /\ (/\ ret.op = "evaluate_dataframe"
        /\ \/ PREDICTION_COL \notin ColumnsOf(df)
           \/ GROUND_TRUTH_COL \notin ColumnsOf(df)
           \/ \E i \in DOMAIN ret.arg.sensitive_cols :
                ret.arg.sensitive_cols[i] \notin ColumnsOf(df))
            => (~ret.ok /\ ret.val = "ValidationError")
    /\ (/\ ret.op = "validate_dataframe"
        /\ ret.arg.required_columns \ ColumnsOf(df) # {})
            => (~ret.ok /\ ret.val[1] = "ValidationError")

----------------------------------------------------------------------------
(* Claims about predict_sentiment *)

\* C22: predict_sentiment called without a model or without a tokenizer does not
\* raise and returns one label per text, empty texts included, each of them positive,
\* negative or neutral.
C22_DummyPredictions ==
    (/\ ret.op = "predict_sentiment"
     /\ (ret.arg.model = "None" \/ ret.arg.tokenizer = "None"))
        => /\ ret.ok
           /\ Len(ret.val) = Len(ret.arg.texts)
           /\ \A i \in DOMAIN ret.val : ret.val[i] \in {"positive", "negative", "neutral"}

\* three texts, the second one empty, a tokenizer but no model: three labels
C22_Witness ==
    /\ ret.op = "predict_sentiment"
    /\ ret.arg.model = "None"
    /\ ret.arg.tokenizer = "tokenizer"
    /\ Len(ret.arg.texts) = 3
    /\ ret.arg.texts[2] = ""
    /\ ret.ok
    /\ Len(ret.val) = 3

----------------------------------------------------------------------------
(* Claims about ModelLoader *)

\* the strategies a call should run, in order, given which of them load a model
StrategiesDue(env) ==
    LET local == IF env.local_path \notin {"None", ""} /\ env.exists THEN <<"local">> ELSE <<>>
    IN  IF local # <<>> /\ env.local = "loaded" THEN local
        ELSE IF env.hub = "loaded" THEN local \o <<"hub">>
        ELSE local \o <<"hub", "cache">>

\* C23: load_model_and_tokenizer returns whatever fails inside a strategy; it runs
\* the local strategy only when a local path is configured and exists, then the Hub,
\* then the cache, stops at the first strategy that yields a model and returns its
\* pair, and returns (None, None) when none of them does.
C23_LoaderFallsBack ==
    ret.op = "load_model_and_tokenizer" =>
        LET env == ret.arg
            due == StrategiesDue(env)
            last == due[Len(due)]
            loaded == \/ (last = "local" /\ env.local = "loaded")
                      \/ (last = "hub" /\ env.hub = "loaded")
                      \/ (last = "cache" /\ env.cache = "loaded")
        IN  /\ ret.ok
            /\ ret.val.tried = due
            /\ loaded => /\ ret.val.result.model # "None"
                         /\ ret.val.result.tokenizer # "None"
                         /\ ret.val.result.model =
                              (CASE last = "local" -> "local model"
                                 [] last = "hub" -> "hub model"
                                 [] last = "cache" -> "cached model")
            /\ ~loaded => ret.val.result = [model |-> "None", tokenizer |-> "None"]

\* a configured path whose file is missing, a Hub load that raises, and a cache
\* that loads: the local strategy is not run and the cached pair is returned
C23_Witness ==
    /\ ret.op = "load_model_and_tokenizer"
    /\ ret.arg.local_path = "model.pt"
    /\ ~ret.arg.exists
    /\ ret.arg.hub = "AutoModel raises"
    /\ ret.val.tried = <<"hub", "cache">>
    /\ ret.val.result.model = "cached model"

----------------------------------------------------------------------------
(* Claims about act *)

\* C24: act returns and appends to the actions history a snapshot with executed =
\* True and actions_taken equal to the recommended actions of the decision it was
\* given, and leaves the observations, orientations and decisions histories as they
\* were.
C24_ActRecordsExecution ==
    [][calls'["act"] # calls["act"] =>
          /\ ret'.op = "act"
          /\ ret'.ok
          /\ ret'.val.executed = TRUE
          /\ ret'.val.actions_taken = ret'.arg.recommended_actions
          /\ actions' = Append(actions, ret'.val)
          /\ observations' = observations
          /\ orientations' = orientations
          /\ decisions' = decisions]_vars

\* act on the decision that decide recorded just before
C24_Witness ==
    /\ ret.op = "act"
    /\ ret.ok
    /\ Len(decisions) > 0
    /\ ret.arg = decisions[Len(decisions)]
    /\ Len(actions) > 0
    /\ actions[Len(actions)].actions_taken = ret.arg.recommended_actions

----------------------------------------------------------------------------
(* Claims about the inference queue under threads *)

\* the ids of s, as a set
Ids(s) == {s[i] : i \in DOMAIN s}

\* every id of s occurs once in it
NoRepeat(s) == \A i, j \in DOMAIN s : s[i] = s[j] => i = j

\* the ids of s are in increasing order, which is the order they were put in
InPutOrder(s) == \A i, j \in DOMAIN s : i < j => s[i] < s[j]

\* C25: under every interleaving of puts and of get_batch calls, a get_batch(n)
\* returns the min(n, size) oldest requests of the queue it found, in their order,
\* and removes exactly those; no request is returned by two get_batch calls, and
\* the requests returned come in the order they were put.
C25_QueueThreadSafe ==
    /\ \A w \in Workers :
          threads[w].pc = "popleft" => (lock = w /\ queue = threads[w].seen)
    /\ \A w \in Workers :
          threads[w].pc = "returned" =>
              threads[w].batch =
                  SubSeq(threads[w].seen, 1, BatchLen(threads[w].seen, engine.batch_size))
    /\ Ids(journal.delivered) \cap Ids(queue) = {}
    /\ NoRepeat(journal.delivered)
    /\ InPutOrder(journal.delivered)
    /\ Ids(journal.delivered) \subseteq Ids(journal.put)

\* three requests were put and two threads are live; one has just taken the older
\* request of a queue of two, the other has taken the newer one since
C25_Witness ==
    /\ \E v, w \in Workers :
          /\ v # w
          /\ threads[v].pc = "returned"
          /\ InProcessBatch(threads[w])
          /\ Len(threads[v].seen) = 2
          /\ threads[v].batch = <<threads[v].seen[1]>>
          /\ threads[w].batch = <<threads[v].seen[2]>>
    /\ Len(journal.put) = 3

----------------------------------------------------------------------------
(* Claims about answering every request *)

\* how many times the callback of request r was called
Answers(r) == IF r \in DOMAIN journal.answered THEN journal.answered[r] ELSE 0

\* C26: every request that predict_async accepted while the engine was running is
\* eventually answered: when the scheduler is fair to the worker threads, its
\* callback is called exactly once, whether or not the queue was full at some point,
\* stop() was called with requests queued, or a batch raised.
C26_EveryRequestAnswered ==
    /\ \A r \in Requests : (r \in Ids(journal.put)) ~> (Answers(r) = 1)
    /\ [](\A r \in Requests : Answers(r) <= 1)

----------------------------------------------------------------------------
(* Claims about the worker threads *)

\* the threads that are inside _worker
LiveWorkers == {w \in Workers : Live(threads[w])}

\* C27: at most one worker thread is live at any time: a start() on a running engine
\* changes nothing and creates no thread, and after any sequence of start() and
\* stop() calls, a start() right after a stop() whose join timed out included, no
\* two live workers take requests from the queue.
C27_AtMostOneWorker ==
    /\ [](Cardinality(LiveWorkers) <= 1)
    /\ [][(ret' # ret /\ ret'.op = "start" /\ ret'.arg.running) =>
            (engine' = engine /\ threads' = threads)]_vars

----------------------------------------------------------------------------
(* Claims about predict_async on an engine that does not run *)

\* C28: a predict_async on an engine that does not run, because it was never started
\* or because it was stopped, raises RuntimeError before it creates a request: the
\* queue and the counters stay as they were. On a running engine it does not raise.
C28_NotRunningRaises ==
    [][(ret' # ret /\ ret'.op = "predict_async") =>
          /\ ret'.ok <=> engine.running
          /\ ~engine.running =>
                /\ ret'.val = "RuntimeError"
                /\ queue' = queue
                /\ engine' = engine
                /\ journal' = journal
                /\ threads' = threads]_vars

\* predict_async has raised on an engine that was started and stopped while a request
\* was queued
C28_Witness ==
    /\ ret.op = "predict_async"
    /\ ~ret.ok
    /\ ret.val = "RuntimeError"
    /\ ~engine.running
    /\ engine.worker_thread # NoThread
    /\ queue # <<>>

----------------------------------------------------------------------------
(* Claims about the counters of the engine *)

\* no thread is inside _process_batch
NoBatchInProgress == \A w \in Workers : ~InProcessBatch(threads[w])

\* C29: the worker processes only batches that are not empty and hold at most
\* batch_size requests; whenever no batch is in progress, total_requests is the sum
\* of the sizes of the completed batches and batch_count is their number; and
\* total_requests plus the size of the queue never exceeds the number of requests put.
C29_CountersExact ==
    /\ \A w \in Workers :
          InProcessBatch(threads[w]) =>
              /\ Len(threads[w].batch) >= 1
              /\ Len(threads[w].batch) <= engine.batch_size
    /\ NoBatchInProgress =>
          /\ engine.total_requests = journal.requests
          /\ engine.batch_count = journal.batches
    /\ engine.total_requests + Len(queue) <= Len(journal.put)

----------------------------------------------------------------------------
(* Claims about the counts of a summary *)

\* C30: in every summary of get_summary, passed + failed <= total_metrics, with
\* equality exactly when no result has passed = None; pass_rate lies between 0 and 1;
\* and a result with passed = None counts in total_metrics only.
C30_SummaryPartition ==
    ret.op = "get_summary" =>
        LET rs == ret.arg
            sm == ret.val
            none == {i \in DOMAIN rs : rs[i].passed = "None"}
        IN  /\ sm.passed + sm.failed <= sm.total_metrics
            /\ (sm.passed + sm.failed = sm.total_metrics) <=> (none = {})
            /\ sm.passed + sm.failed <= sm.total_metrics - Cardinality(none)
            /\ sm.pass_rate.d > 0
            /\ 0 <= sm.pass_rate.n
            /\ sm.pass_rate.n <= sm.pass_rate.d

====
